---- MODULE Spec2Model ----
(***************************************************************************)
(* Configuration versioning subsystem of c4-genai-suite: the history       *)
(* store (ConfigurationHistoryRepository), the snapshot builder and the    *)
(* restore engine (ConfigurationHistoryService) and the use cases that     *)
(* write history (create-configuration, update-configuration,              *)
(* delete-extension), and the portable configuration codec                 *)
(* (export-configuration, import-configuration), which has a specification *)
(* of its own.  Every handler is split at its awaits: one action           *)
(* per database statement (or per transaction whose effects are only       *)
(* visible at its commit), so that concurrent requests interleave the way  *)
(* they do on the shared database.                                         *)
(***************************************************************************)
EXTENDS Integers, Sequences, FiniteSets, TLC

\* ------------------------------------------------------------------ bounds
MaxOps == 2          \* requests started in one behaviour

Procs == {"p1", "p2"}                 \* concurrent request handlers
Undef == "undefined"                  \* a JS undefined / SQL NULL
Groups == {"g1"}                      \* user groups that exist
CfgIds == 1..(MaxOps + 1)             \* ids the configurations sequence can hand out

\* ---------------------------------------------------------------- registry
Placeholder == "********************"

StrArg == [type |-> "string", format |-> "none", required |-> TRUE, properties |-> <<>>]
PwdArg == [type |-> "string", format |-> "password", required |-> TRUE, properties |-> <<>>]

\* ExplorerService.getExtension(name): the registered extension types and
\* their argument schemas.
Registry ==
  [x |-> [apiKey |-> PwdArg, endpoint |-> StrArg],
   y |-> [auth |-> [type |-> "object", format |-> "none", required |-> FALSE,
                    properties |-> [token |-> [PwdArg EXCEPT !.required = FALSE],
                                    user |-> StrArg]],
           pin |-> [PwdArg EXCEPT !.required = FALSE]]]

getExtension(name) == IF name \in DOMAIN Registry THEN <<Registry[name]>> ELSE <<>>

\* maskKeyValues: secret-typed values become the placeholder, recursively
\* through object-typed arguments; keys without a descriptor pass through.
RECURSIVE maskKeyValues(_, _)
maskKeyValues(values, args) ==
  [k \in DOMAIN values |->
     IF k \notin DOMAIN args THEN values[k]
     ELSE IF args[k].format = "password" THEN Placeholder
     ELSE IF args[k].type = "object" THEN maskKeyValues(values[k], args[k].properties)
     ELSE values[k]]

\* the rules a value map breaks: a required argument that is missing, or a
\* required secret that still holds the placeholder; object-typed arguments
\* are checked against their properties.  Every value of the model has the
\* type its descriptor declares.
RECURSIVE violations(_, _, _)
violations(values, args, path) ==
  UNION {LET here == Append(path, k) IN
         IF k \notin DOMAIN values
         THEN IF args[k].required THEN {[path |-> here, rule |-> "required"]} ELSE {}
         ELSE IF args[k].type = "object"
         THEN violations(values[k], args[k].properties, here)
         ELSE IF args[k].required /\ args[k].format = "password" /\ values[k] = Placeholder
         THEN {[path |-> here, rule |-> "required"]}
         ELSE {}
         : k \in DOMAIN args}

\* validateConfiguration(values, spec): <<>> when the values are valid, else
\* the violation it throws
validateConfiguration(values, args) ==
  LET found == violations(values, args, <<>>)
  IN IF found = {} THEN <<>> ELSE <<CHOOSE v \in found : TRUE>>

\* --------------------------------------------------------------- the store
VARIABLES
  configs,      \* configurations table: id -> row (DELETED is a status)
  extensions,   \* extensions table: set of rows
  history,      \* configuration_history table, in insertion (createdAt) order
  nextCfgId,    \* configurations id sequence
  nextExtId,    \* extensions id sequence
  lock,         \* per configuration: holder of the row locks on its history rows
  pc,           \* per request handler: the await it is at
  loc,          \* per request handler: its command and local variables
  result,       \* per request handler: outcome of its last request
  opsStarted    \* requests started so far

vars == <<configs, extensions, history, nextCfgId, nextExtId, lock, pc, loc, result, opsStarted>>

NoRow == [absent |-> TRUE]
NoSnapshot == [absent |-> TRUE]
NoValues == [absent |-> TRUE]

IdleLoc ==
  [op |-> "none", id |-> 0, userId |-> Undef, values |-> NoValues, version |-> 0,
   cfgId |-> 0, action |-> "", comment |-> <<>>, entity |-> NoRow,
   snapshot |-> NoSnapshot, target |-> NoSnapshot, max |-> 0, ret |-> "",
   loaded |-> {}, data |-> NoValues, userGroups |-> {}, logged |-> <<>>]

\* ----------------------------------------------------------------- helpers
ExtsOf(c) == {e \in extensions : e.configurationId = c}

\* relations: ['extensions'] yields the rows in primary-key order
RECURSIVE SeqById(_)
SeqById(S) ==
  IF S = {} THEN <<>>
  ELSE LET m == CHOOSE e \in S : \A f \in S : e.id <= f.id
       IN <<m>> \o SeqById(S \ {m})

HistoryOf(c) == {i \in 1..Len(history) : history[i].configurationId = c}

MaxOf(S) == IF S = {} THEN 0
            ELSE LET m == CHOOSE v \in S : \A w \in S : w <= v IN m

\* COALESCE(MAX(history.version), 0) WHERE configurationId = c
MaxVersion(c) == MaxOf({history[i].version : i \in HistoryOf(c)})

\* a snapshot builder that copies every value map as it is
buildSnapshotUnmasked(configuration, exts) ==
  [name |-> configuration.name,
   description |-> configuration.description,
   status |-> configuration.status,
   agentName |-> configuration.agentName,
   chatFooter |-> configuration.chatFooter,
   chatSuggestions |-> configuration.chatSuggestions,
   executorEndpoint |-> configuration.executorEndpoint,
   executorHeaders |-> configuration.executorHeaders,
   userGroupIds |-> configuration.userGroupIds,
   extensions |->
     [i \in 1..Len(exts) |->
        LET ext == exts[i]
        IN [externalId |-> ext.externalId,
            name |-> ext.name,
            enabled |-> ext.enabled,
            values |-> ext.values,
            state |-> IF ext.state = Undef THEN "{}" ELSE ext.state,
            configurableArguments |-> IF ext.configurableArguments = Undef THEN "{}"
                                      ELSE ext.configurableArguments]]]

\* a snapshot builder that leaves out the extensions it finds no type for
buildSnapshotRegisteredOnly(configuration, exts) ==
  buildSnapshotUnmasked(configuration,
                        SelectSeq(exts, LAMBDA ext : getExtension(ext.name) # <<>>))

\* ConfigurationHistoryService.buildSnapshot
buildSnapshot(configuration, exts) ==
  [name |-> configuration.name,
   description |-> configuration.description,
   status |-> configuration.status,
   agentName |-> configuration.agentName,
   chatFooter |-> configuration.chatFooter,
   chatSuggestions |-> configuration.chatSuggestions,
   executorEndpoint |-> configuration.executorEndpoint,
   executorHeaders |-> configuration.executorHeaders,
   userGroupIds |-> configuration.userGroupIds,
   extensions |->
     [i \in 1..Len(exts) |->
        LET ext == exts[i]
            extension == getExtension(ext.name)
        IN [externalId |-> ext.externalId,
            name |-> ext.name,
            enabled |-> ext.enabled,
            values |-> IF extension # <<>> THEN maskKeyValues(ext.values, extension[1])
                       ELSE ext.values,
            state |-> IF ext.state = Undef THEN "{}" ELSE ext.state,
            configurableArguments |-> IF ext.configurableArguments = Undef THEN "{}"
                                      ELSE ext.configurableArguments]]]

\* assignDefined(entity, {...}) of update/create: only defined values are
\* assigned; status is always defined (enabled ? ENABLED : DISABLED).
assignValues(entity, values) ==
  LET pick(old, new) == IF new = Undef THEN old ELSE new
  IN [entity EXCEPT
        !.agentName = pick(@, values.agentName),
        !.chatFooter = pick(@, values.chatFooter),
        !.chatSuggestions = pick(@, values.chatSuggestions),
        !.status = IF values.enabled = "true" THEN "enabled" ELSE "disabled",
        !.executorEndpoint = pick(@, values.executorEndpoint),
        !.executorHeaders = pick(@, values.executorHeaders),
        !.name = pick(@, values.name),
        !.description = pick(@, values.description),
        !.userGroupIds = IF values.userGroupIds = <<>> THEN @
                         ELSE values.userGroupIds[1] \cap Groups]

\* --------------------------------------------------------- initial content
EmptyRow ==
  [name |-> Undef, description |-> Undef, status |-> Undef, agentName |-> Undef,
   chatFooter |-> Undef, chatSuggestions |-> Undef, executorEndpoint |-> Undef,
   executorHeaders |-> Undef, userGroupIds |-> {}]

Row1 ==
  [name |-> "Support Bot", description |-> "d1", status |-> "enabled",
   agentName |-> "a1", chatFooter |-> "f1", chatSuggestions |-> "s1",
   executorEndpoint |-> "e1", executorHeaders |-> "h1", userGroupIds |-> {"g1"}]

Ext1 ==
  [id |-> 1, configurationId |-> 1, name |-> "x", externalId |-> "1-x",
   enabled |-> TRUE, values |-> [apiKey |-> "sk-real-123", endpoint |-> "https://x"],
   state |-> "st1", configurableArguments |-> "ca1"]

Ext2 ==
  [id |-> 2, configurationId |-> 1, name |-> "y", externalId |-> "1-y",
   enabled |-> FALSE, values |-> [auth |-> [token |-> "tk-real", user |-> "bob"]],
   state |-> "st2", configurableArguments |-> "ca2"]

\* an extension whose type is no longer registered
Ext3 ==
  [id |-> 3, configurationId |-> 1, name |-> "z", externalId |-> "1-z",
   enabled |-> TRUE, values |-> [secret |-> "zz-real"],
   state |-> Undef, configurableArguments |-> Undef]

NoUpdate ==
  [agentName |-> Undef, chatFooter |-> Undef, chatSuggestions |-> Undef,
   enabled |-> Undef, executorEndpoint |-> Undef, executorHeaders |-> Undef,
   name |-> Undef, description |-> Undef, userGroupIds |-> <<>>]

\* command payloads of update-configuration and create-configuration
ValuesInputs ==
  {[NoUpdate EXCEPT !.name = "Sales Bot", !.enabled = "true", !.agentName = "a2",
                    !.executorEndpoint = "e2"],
   [NoUpdate EXCEPT !.description = "d2", !.chatFooter = "f2", !.chatSuggestions = "s2",
                    !.executorHeaders = "h2", !.enabled = "false",
                    !.userGroupIds = <<{}>>],
   [NoUpdate EXCEPT !.description = "d2", !.chatFooter = "f2", !.chatSuggestions = "s2",
                    !.executorHeaders = "h2", !.userGroupIds = <<{}>>]}

UserIds == {"u1", Undef}

\* The store holds configuration 1 with three extensions.  Either it has no
\* history yet (it was created without a user id), or one update-configuration
\* by user u1 has already run: version 1 is the snapshot taken before that
\* update.
FirstUpdate == CHOOSE v \in ValuesInputs : v.name # Undef

Entry1 ==
  [configurationId |-> 1, version |-> 1, action |-> "update", changedBy |-> "u1",
   snapshot |-> buildSnapshot(Row1, <<Ext1, Ext2, Ext3>>),
   changeComment |-> <<"Configuration updated">>]

Init ==
  /\ \/ configs = (1 :> Row1) /\ history = <<>>
     \/ configs = (1 :> assignValues(Row1, FirstUpdate)) /\ history = <<Entry1>>
  /\ extensions = {Ext1, Ext2, Ext3}
  /\ nextCfgId = 2
  /\ nextExtId = 4
  /\ lock = [c \in CfgIds |-> "none"]
  /\ pc = [p \in Procs |-> "idle"]
  /\ loc = [p \in Procs |-> IdleLoc]
  /\ result = [p \in Procs |-> [op |-> "none", res |-> "none"]]
  /\ opsStarted = 0

\* ------------------------------------------------------- request plumbing
\* the handler returns or throws: its locals are gone, the caller sees r
Return(p, op, r) ==
  /\ pc' = [pc EXCEPT ![p] = "idle"]
  /\ loc' = [loc EXCEPT ![p] = IdleLoc]
  /\ result' = [result EXCEPT ![p] = [op |-> op, res |-> r]]

Finish(p, r) == Return(p, loc[p].op, r)

CanStart(p) == pc[p] = "idle" /\ opsStarted < MaxOps

StoreUnchanged == UNCHANGED <<configs, extensions, history, nextCfgId, nextExtId, lock>>

\* ------------------------------------------ ConfigurationHistoryService
\* a snapshot that masks the loaded rows in place and writes them back
saveSnapshotMasksLive(p) ==
  /\ pc[p] = "ss_find"
  /\ LET c == loc[p].cfgId IN
       IF c \notin DOMAIN configs
       THEN /\ Finish(p, "NotFound")
            /\ UNCHANGED extensions
       ELSE /\ loc' = [loc EXCEPT ![p].snapshot =
                         buildSnapshot(configs[c], SeqById(ExtsOf(c)))]
            /\ pc' = [pc EXCEPT ![p] = "cs_select"]
            /\ extensions' =
                 {IF e.configurationId = c /\ e.name \in DOMAIN Registry
                  THEN [e EXCEPT !.values = maskKeyValues(@, Registry[e.name])]
                  ELSE e : e \in extensions}
            /\ UNCHANGED result
  /\ UNCHANGED <<configs, history, nextCfgId, nextExtId, lock, opsStarted>>

\* saveSnapshot, first await: findOne(configuration with extensions), then
\* buildSnapshot on what was read.
saveSnapshot(p) ==
  /\ pc[p] = "ss_find"
  /\ LET c == loc[p].cfgId IN
       IF c \notin DOMAIN configs
       THEN Finish(p, "NotFound")
       ELSE /\ loc' = [loc EXCEPT ![p].snapshot =
                         buildSnapshot(configs[c], SeqById(ExtsOf(c)))]
            /\ pc' = [pc EXCEPT ![p] = "cs_select"]
            /\ UNCHANGED result
  /\ StoreUnchanged
  /\ UNCHANGED opsStarted

\* --------------------------------------- ConfigurationHistoryRepository
\* setLock('pessimistic_write') on the MAX query: row locks on the history
\* rows of the configuration that the query reads, held to the end of the
\* transaction.  A configuration without history rows has nothing to lock.
LockFree(p, c) == HistoryOf(c) = {} \/ lock[c] \in {"none", p}

\* createSnapshot, first statement of the transaction: SELECT COALESCE(MAX)
createSnapshotSelect(p) ==
  /\ pc[p] = "cs_select"
  /\ LET c == loc[p].cfgId IN
       /\ LockFree(p, c)
       /\ lock' = IF HistoryOf(c) # {} THEN [lock EXCEPT ![c] = p] ELSE lock
       /\ loc' = [loc EXCEPT ![p].max = MaxVersion(c)]
  /\ pc' = [pc EXCEPT ![p] = "cs_insert"]
  /\ UNCHANGED <<configs, extensions, history, nextCfgId, nextExtId, result, opsStarted>>

\* a transaction end that keeps the row locks
ReleaseNone(p) == lock

\* commit or rollback of the createSnapshot transaction: its row locks go
Release(p) == [c \in CfgIds |-> IF lock[c] = p THEN "none" ELSE lock[c]]

\* a statement of the createSnapshot transaction is rejected by the database:
\* the transaction rolls back and the error reaches the caller of saveSnapshot
createSnapshotFail(p) ==
  /\ pc[p] = "cs_select"
  /\ Finish(p, "QueryFailed")
  /\ lock' = Release(p)
  /\ UNCHANGED <<configs, extensions, history, nextCfgId, nextExtId, opsStarted>>

\* a version allocation that skips a number
NextVersionSkips(max) == max + 2

\* const version = Number(result?.max || 0) + 1
NextVersion(max) == max + 1

\* the table without its unique constraint
UniqueViolationOff(c, version) == FALSE

\* CONSTRAINT "UQ_configuration_version" UNIQUE ("configurationId", "version")
UniqueViolation(c, version) ==
  \E i \in HistoryOf(c) : history[i].version = version

\* save() as an upsert keyed on the configuration: the newest row is replaced
savedUpsert(rows, entity) ==
  IF \E i \in 1..Len(rows) : rows[i].configurationId = entity.configurationId
  THEN LET k == CHOOSE i \in 1..Len(rows) :
                  /\ rows[i].configurationId = entity.configurationId
                  /\ \A j \in 1..Len(rows) :
                        rows[j].configurationId = entity.configurationId => j <= i
       IN [rows EXCEPT ![k] = entity]
  ELSE Append(rows, entity)

\* historyRepo.save(entity): an INSERT of the new row
saved(rows, entity) == Append(rows, entity)

\* createSnapshot, second statement: historyRepo.save(entity) and the commit
\* (or the constraint error and the rollback: the caller's request fails).
createSnapshotSave(p) ==
  /\ pc[p] = "cs_insert"
  /\ LET c == loc[p].cfgId
         version == NextVersion(loc[p].max)
         entity == [configurationId |-> c, version |-> version,
                    action |-> loc[p].action, changedBy |-> loc[p].userId,
                    snapshot |-> loc[p].snapshot, changeComment |-> loc[p].comment]
     IN IF UniqueViolation(c, version)
        THEN /\ Finish(p, "QueryFailed")
             /\ UNCHANGED history
        ELSE /\ history' = saved(history, entity)
             /\ IF loc[p].ret = "done"
                THEN Finish(p, "ok")
                ELSE /\ pc' = [pc EXCEPT ![p] = loc[p].ret]
                     /\ UNCHANGED <<loc, result>>
  /\ lock' = Release(p)
  /\ UNCHANGED <<configs, extensions, nextCfgId, nextExtId, opsStarted>>

\* -------------------------------------------- CreateConfigurationHandler
CreateConfiguration(p) ==
  /\ CanStart(p)
  /\ \E values \in ValuesInputs, userId \in UserIds :
       LET created == assignValues(EmptyRow, values) IN
       /\ configs' = configs @@ (nextCfgId :> created)
       /\ nextCfgId' = nextCfgId + 1
       /\ IF userId # Undef
          THEN /\ loc' = [loc EXCEPT ![p] =
                   [IdleLoc EXCEPT !.op = "create", !.id = nextCfgId, !.cfgId = nextCfgId,
                                   !.userId = userId, !.action = "create",
                                   !.comment = <<"Initial configuration created">>,
                                   !.ret = "done"]]
               /\ pc' = [pc EXCEPT ![p] = "ss_find"]
               /\ UNCHANGED result
          ELSE Return(p, "create", "ok")
  /\ opsStarted' = opsStarted + 1
  /\ UNCHANGED <<extensions, history, nextExtId, lock>>

\* -------------------------------------------- UpdateConfigurationHandler
\* execute up to the snapshot: findOne({ id, status: Not(DELETED) })
UpdateConfiguration(p) ==
  /\ CanStart(p)
  /\ \E id \in 1..nextCfgId, values \in ValuesInputs, userId \in UserIds :
       IF id \notin DOMAIN configs \/ configs[id].status = "deleted"
       THEN Return(p, "update", "NotFound")
       ELSE /\ loc' = [loc EXCEPT ![p] =
                [IdleLoc EXCEPT !.op = "update", !.id = id, !.cfgId = id,
                                !.userId = userId, !.values = values,
                                !.entity = configs[id], !.action = "update",
                                !.comment = <<"Configuration updated">>,
                                !.ret = "up_save"]]
            /\ pc' = [pc EXCEPT ![p] = IF userId # Undef THEN "ss_find" ELSE "up_save"]
            /\ UNCHANGED result
  /\ opsStarted' = opsStarted + 1
  /\ StoreUnchanged

\* execute after the snapshot: assignDefined and configurations.save(entity)
UpdateConfigurationSave(p) ==
  /\ pc[p] = "up_save"
  /\ configs' = [configs EXCEPT ![loc[p].id] = assignValues(loc[p].entity, loc[p].values)]
  /\ Finish(p, "ok")
  /\ UNCHANGED <<extensions, history, nextCfgId, nextExtId, lock, opsStarted>>

\* ----------------------------------------------- DeleteExtensionHandler
\* execute up to the snapshot: extensions.findOneBy({ id })
DeleteExtension(p) ==
  /\ CanStart(p)
  /\ \E id \in 1..nextExtId, userId \in UserIds, configurationId \in 0..nextCfgId :
       IF ~ \E e \in extensions : e.id = id
       THEN Return(p, "delete-extension", "NotFound")
       ELSE LET extension == CHOOSE e \in extensions : e.id = id
                cfgId == IF configurationId # 0 THEN configurationId
                         ELSE extension.configurationId
                snap == userId # Undef /\ cfgId # 0
            IN /\ loc' = [loc EXCEPT ![p] =
                     [IdleLoc EXCEPT !.op = "delete-extension", !.id = id,
                                     !.cfgId = IF snap THEN cfgId ELSE 0,
                                     !.userId = userId, !.action = "update",
                                     !.comment = <<"Extension deleted", extension.name>>,
                                     !.ret = "dx_delete"]]
               /\ pc' = [pc EXCEPT ![p] = IF snap THEN "ss_find" ELSE "dx_delete"]
               /\ UNCHANGED result
  /\ opsStarted' = opsStarted + 1
  /\ StoreUnchanged

\* execute after the snapshot: extensions.delete({ id }) and result.affected
DeleteExtensionDelete(p) ==
  /\ pc[p] = "dx_delete"
  /\ IF \E e \in extensions : e.id = loc[p].id
     THEN /\ extensions' = {e \in extensions : e.id # loc[p].id}
          /\ Finish(p, "ok")
     ELSE /\ UNCHANGED extensions
          /\ Finish(p, "NotFound")
  /\ UNCHANGED <<configs, history, nextCfgId, nextExtId, lock, opsStarted>>

\* ------------------------- ConfigurationHistoryService.restoreVersion
\* a lookup that falls back to the newest entry instead of reporting absence
getVersionOrLatest(c, version) ==
  LET S == {i \in HistoryOf(c) : history[i].version = version}
  IN IF S # {} THEN <<history[CHOOSE i \in S : TRUE]>>
     ELSE IF HistoryOf(c) = {} THEN <<>>
     ELSE <<history[CHOOSE i \in HistoryOf(c) : history[i].version = MaxVersion(c)]>>

\* historyRepository.getVersion(configurationId, version)
getVersion(c, version) ==
  LET S == {i \in HistoryOf(c) : history[i].version = version}
  IN IF S = {} THEN <<>> ELSE <<history[CHOOSE i \in S : TRUE]>>

\* a restore that starts its transaction without the safety snapshot
restoreVersionNoSnapshot(p) ==
  /\ CanStart(p)
  /\ \E c \in 1..nextCfgId : \E version \in 1..(MaxVersion(c) + 1) :
       LET historyEntity == getVersion(c, version) IN
       IF historyEntity = <<>>
       THEN Return(p, "restore", "NotFound")
       ELSE /\ loc' = [loc EXCEPT ![p] =
                [IdleLoc EXCEPT !.op = "restore", !.id = c, !.cfgId = c,
                                !.version = version, !.userId = "u1",
                                !.target = historyEntity[1].snapshot,
                                !.action = "restore",
                                !.comment = <<"Restoring to version", version>>,
                                !.ret = "rs_load"]]
            /\ pc' = [pc EXCEPT ![p] = "rs_load"]
            /\ UNCHANGED result
  /\ opsStarted' = opsStarted + 1
  /\ StoreUnchanged

\* restoreVersion up to the snapshot: this.getVersion(configurationId, version)
restoreVersion(p) ==
  /\ CanStart(p)
  /\ \E c \in 1..nextCfgId : \E version \in 1..(MaxVersion(c) + 1) :
       LET historyEntity == getVersion(c, version) IN
       IF historyEntity = <<>>
       THEN Return(p, "restore", "NotFound")
       ELSE /\ loc' = [loc EXCEPT ![p] =
                [IdleLoc EXCEPT !.op = "restore", !.id = c, !.cfgId = c,
                                !.version = version, !.userId = "u1",
                                !.target = historyEntity[1].snapshot,
                                !.action = "restore",
                                !.comment = <<"Restoring to version", version>>,
                                !.ret = "rs_load"]]
            /\ pc' = [pc EXCEPT ![p] = "ss_find"]
            /\ UNCHANGED result
  /\ opsStarted' = opsStarted + 1
  /\ StoreUnchanged

\* startTransaction and queryRunner.manager.findOne(ConfigurationEntity, ...):
\* a plain read, no lock option
restoreVersionLoad(p) ==
  /\ pc[p] = "rs_load"
  /\ LET c == loc[p].id IN
       IF c \notin DOMAIN configs
       THEN Finish(p, "NotFound")
       ELSE /\ loc' = [loc EXCEPT ![p].entity = configs[c],
                                  ![p].loaded = {e.id : e \in ExtsOf(c)}]
            /\ pc' = [pc EXCEPT ![p] = "rs_tx"]
            /\ UNCHANGED result
  /\ StoreUnchanged
  /\ UNCHANGED opsStarted

\* statusMap: the snapshot's status string back to ConfigurationStatus
statusMap == [enabled |-> "enabled", disabled |-> "disabled", deleted |-> "deleted"]

\* a restore that forgets one of the scalar fields
restoredRowNoFooter(configuration, snapshot) ==
  [configuration EXCEPT
     !.name = snapshot.name,
     !.description = snapshot.description,
     !.agentName = snapshot.agentName,
     !.chatSuggestions = snapshot.chatSuggestions,
     !.executorEndpoint = snapshot.executorEndpoint,
     !.executorHeaders = snapshot.executorHeaders,
     !.status = snapshot.status]

\* the fields restoreVersion assigns from the snapshot; everything else of
\* the loaded entity is saved as loaded
restoredRow(configuration, snapshot) ==
  [configuration EXCEPT
     !.name = snapshot.name,
     !.description = snapshot.description,
     !.agentName = snapshot.agentName,
     !.chatFooter = snapshot.chatFooter,
     !.chatSuggestions = snapshot.chatSuggestions,
     !.executorEndpoint = snapshot.executorEndpoint,
     !.executorHeaders = snapshot.executorHeaders,
     !.status = statusMap[snapshot.status]]

\* new rows that take over the values of the live row they replace
newExtensionsLiveValues(c, snapshot, firstId) ==
  {[id |-> firstId + i - 1,
    configurationId |-> c,
    name |-> snapshot.extensions[i].name,
    externalId |-> snapshot.extensions[i].externalId,
    enabled |-> snapshot.extensions[i].enabled,
    values |-> LET live == {e \in ExtsOf(c) :
                              e.externalId = snapshot.extensions[i].externalId}
               IN IF live = {} THEN snapshot.extensions[i].values
                  ELSE (CHOOSE e \in live : TRUE).values,
    state |-> snapshot.extensions[i].state,
    configurableArguments |-> snapshot.extensions[i].configurableArguments]
   : i \in 1..Len(snapshot.extensions)}

\* snapshot.extensions.map(extSnapshot => manager.create(ExtensionEntity, ...))
newExtensions(c, snapshot, firstId) ==
  {[id |-> firstId + i - 1,
    configurationId |-> c,
    name |-> snapshot.extensions[i].name,
    externalId |-> snapshot.extensions[i].externalId,
    enabled |-> snapshot.extensions[i].enabled,
    values |-> snapshot.extensions[i].values,
    state |-> snapshot.extensions[i].state,
    configurableArguments |-> snapshot.extensions[i].configurableArguments]
   : i \in 1..Len(snapshot.extensions)}

\* a save that leaves the rows it does not know where they are
detachedNone(rows, c) == rows

\* manager.save(ConfigurationEntity, configuration) with
\* configuration.extensions = newExtensions: the ORM synchronises the
\* one-to-many relation with the array, so a row of the configuration that is
\* not in the array (one committed by somebody else after the load) is
\* detached from it (its configurationId is set to NULL).
detached(rows, c) ==
  {IF e.configurationId = c THEN [e EXCEPT !.configurationId = 0] ELSE e : e \in rows}

\* a commit that also records the restored state as a history entry
restoreVersionCommitWithSnapshot(p) ==
  /\ pc[p] = "rs_tx"
  /\ LET c == loc[p].id
         snapshot == loc[p].target
     IN /\ extensions' = detached({e \in extensions : e.id \notin loc[p].loaded}, c)
                           \cup newExtensions(c, snapshot, nextExtId)
        /\ nextExtId' = nextExtId + Len(snapshot.extensions)
        /\ configs' = [configs EXCEPT ![c] = restoredRow(loc[p].entity, snapshot)]
        /\ history' = Append(history,
                             [configurationId |-> c, version |-> MaxVersion(c) + 1,
                              action |-> "restore", changedBy |-> loc[p].userId,
                              snapshot |-> snapshot, changeComment |-> loc[p].comment])
  /\ Finish(p, "ok")
  /\ UNCHANGED <<nextCfgId, lock, opsStarted>>

\* remove(configuration.extensions), save(configuration), commitTransaction:
\* the writes of the transaction become visible together at the commit
restoreVersionCommit(p) ==
  /\ pc[p] = "rs_tx"
  /\ LET c == loc[p].id
         snapshot == loc[p].target
     IN /\ extensions' = detached({e \in extensions : e.id \notin loc[p].loaded}, c)
                           \cup newExtensions(c, snapshot, nextExtId)
        /\ nextExtId' = nextExtId + Len(snapshot.extensions)
        /\ configs' = [configs EXCEPT ![c] = restoredRow(loc[p].entity, snapshot)]
  /\ Finish(p, "ok")
  /\ UNCHANGED <<history, nextCfgId, lock, opsStarted>>

\* a failure path without the rollback: the removals stay
restoreVersionNoRollback(p) ==
  /\ pc[p] = "rs_tx"
  /\ extensions' = {e \in extensions : e.id \notin loc[p].loaded}
  /\ Finish(p, "QueryFailed")
  /\ UNCHANGED <<configs, history, nextCfgId, nextExtId, lock, opsStarted>>

\* a statement of the transaction throws: rollbackTransaction, throw error
restoreVersionRollback(p) ==
  /\ pc[p] = "rs_tx"
  /\ Finish(p, "QueryFailed")
  /\ StoreUnchanged
  /\ UNCHANGED opsStarted

Next ==
  \E p \in Procs :
    \/ CreateConfiguration(p)
    \/ UpdateConfiguration(p)
    \/ UpdateConfigurationSave(p)
    \/ DeleteExtension(p)
    \/ DeleteExtensionDelete(p)
    \/ restoreVersion(p)
    \/ restoreVersionLoad(p)
    \/ restoreVersionCommit(p)
    \/ restoreVersionRollback(p)
    \/ saveSnapshot(p)
    \/ createSnapshotSelect(p)
    \/ createSnapshotFail(p)
    \/ createSnapshotSave(p)

Spec == Init /\ [][Next]_vars

\* the next statement of a request that has started, when the database
\* answers it; a statement that waits for a row lock is answered when the
\* lock is free
\* The store after two racing restores of configuration 1 to version 1 (Spec
\* reaches it with three requests: the first update is the one of Init): both
\* took their safety snapshot and loaded the rows before either committed, so
\* the rows the first one created were detached by the save of the second.
AfterRaceEntry(version) ==
  [configurationId |-> 1, version |-> version, action |-> "restore",
   changedBy |-> "u1",
   snapshot |-> buildSnapshot(assignValues(Row1, FirstUpdate), <<Ext1, Ext2, Ext3>>),
   changeComment |-> <<"Restoring to version", 1>>]

InitAfterRace ==
  /\ configs = (1 :> restoredRow(assignValues(Row1, FirstUpdate), Entry1.snapshot))
  /\ history = <<Entry1, AfterRaceEntry(2), AfterRaceEntry(3)>>
  /\ extensions = detached(newExtensions(1, Entry1.snapshot, 4), 1)
                     \cup newExtensions(1, Entry1.snapshot, 7)
  /\ nextCfgId = 2
  /\ nextExtId = 10
  /\ lock = [c \in CfgIds |-> "none"]
  /\ pc = [p \in Procs |-> "idle"]
  /\ loc = [p \in Procs |-> IdleLoc]
  /\ result = [p \in Procs |-> [op |-> "none", res |-> "none"]]
  /\ opsStarted = 0

SpecAfterRace == InitAfterRace /\ [][Next]_vars

Progress(p) ==
  \/ saveSnapshot(p)
  \/ createSnapshotSelect(p)
  \/ createSnapshotSave(p)
  \/ UpdateConfigurationSave(p)
  \/ DeleteExtensionDelete(p)
  \/ restoreVersionLoad(p)
  \/ restoreVersionCommit(p)

\* the requests on configuration 1 that have passed their first read: a
\* restore to version 1, an update and a delete-extension of extension 1,
\* each by user u1 and each about to take its snapshot
StartedRequests ==
  {[IdleLoc EXCEPT !.op = "restore", !.id = 1, !.cfgId = 1, !.version = 1,
                   !.userId = "u1", !.target = Entry1.snapshot,
                   !.action = "restore",
                   !.comment = <<"Restoring to version", 1>>,
                   !.ret = "rs_load"],
   [IdleLoc EXCEPT !.op = "update", !.id = 1, !.cfgId = 1, !.userId = "u1",
                   !.values = CHOOSE v \in ValuesInputs : v.enabled = "false",
                   !.entity = assignValues(Row1, FirstUpdate),
                   !.action = "update",
                   !.comment = <<"Configuration updated">>,
                   !.ret = "up_save"],
   [IdleLoc EXCEPT !.op = "delete-extension", !.id = 1, !.cfgId = 1,
                   !.userId = "u1", !.action = "update",
                   !.comment = <<"Extension deleted", "x">>,
                   !.ret = "dx_delete"]}

\* a concurrent mix of started requests on configuration 1, which has one
\* history entry
InitFair ==
  /\ configs = (1 :> assignValues(Row1, FirstUpdate))
  /\ history = <<Entry1>>
  /\ extensions = {Ext1, Ext2, Ext3}
  /\ nextCfgId = 2
  /\ nextExtId = 4
  /\ lock = [c \in CfgIds |-> "none"]
  /\ loc \in [Procs -> StartedRequests \cup {IdleLoc}]
  /\ pc = [p \in Procs |-> IF loc[p] = IdleLoc THEN "idle" ELSE "ss_find"]
  /\ result = [p \in Procs |-> [op |-> "none", res |-> "none"]]
  /\ opsStarted = Cardinality({p \in Procs : loc[p] # IdleLoc})

\* the statements of the started requests
NextFair ==
  \E p \in Procs :
    \/ saveSnapshot(p)
    \/ createSnapshotSelect(p)
    \/ createSnapshotFail(p)
    \/ createSnapshotSave(p)
    \/ UpdateConfigurationSave(p)
    \/ DeleteExtensionDelete(p)
    \/ restoreVersionLoad(p)
    \/ restoreVersionCommit(p)
    \/ restoreVersionRollback(p)

\* every awaited statement is answered in the end: the event loop runs each
\* handler whose promise has settled
FairSpec == InitFair /\ [][NextFair]_vars /\ \A p \in Procs : WF_vars(Progress(p))

\* ---------------------------------------------------- portable documents
CurrentVersion == "1.0.0"             \* process.env.VERSION

ImportedX ==
  [name |-> "x", enabled |-> TRUE,
   values |-> [apiKey |-> "sk-new", endpoint |-> "https://n"],
   configurableArguments |-> "ca9"]

\* as exported: the required secret is masked
ImportedXMasked == [ImportedX EXCEPT !.values.apiKey = Placeholder]

\* the required endpoint is missing
ImportedXInvalid == [ImportedX EXCEPT !.values = [apiKey |-> "sk-new"]]

\* the optional secrets are masked; region is a key the type does not
\* declare
ImportedY ==
  [name |-> "y", enabled |-> FALSE,
   values |-> [auth |-> [token |-> Placeholder, user |-> "eve"],
               pin |-> Placeholder, region |-> "us"],
   configurableArguments |-> Undef]

\* the required auth.user is missing
ImportedYInvalid == [ImportedY EXCEPT !.values = [auth |-> [token |-> "tk-new"]]]

\* extension types the registry does not have
ImportedZ ==
  [name |-> "z", enabled |-> TRUE, values |-> [secret |-> "zz-new"],
   configurableArguments |-> Undef]

ImportedW ==
  [name |-> "w", enabled |-> TRUE, values |-> [secret |-> "ww-new"],
   configurableArguments |-> Undef]

ExtensionLists ==
  {<<>>, <<ImportedX, ImportedY>>, <<ImportedXMasked>>,
   <<ImportedYInvalid, ImportedXInvalid>>, <<ImportedW, ImportedZ>>,
   <<ImportedXInvalid, ImportedZ>>, <<ImportedZ, ImportedXInvalid>>,
   <<ImportedX, ImportedX>>}

\* userGroupIds of a document: absent, or an array of ids (g1 exists)
GroupLists ==
  {<<>>, << <<>> >>, << <<"g1">> >>, << <<"g9", "g8">> >>,
   << <<"g1", "g9">> >>, << <<"g1", "g1">> >>}

BaseDocument ==
  [version |-> Undef, exportedAt |-> Undef, originId |-> <<>>,
   name |-> "Imported Bot", description |-> "d3", enabled |-> TRUE,
   agentName |-> "a3", chatFooter |-> Undef, chatSuggestions |-> Undef,
   executorEndpoint |-> "e3", executorHeaders |-> Undef,
   userGroupIds |-> <<>>, extensions |-> <<>>]

\* the documents a client sends to import
Documents ==
  {[BaseDocument EXCEPT !.extensions = e] : e \in ExtensionLists}
  \cup {[BaseDocument EXCEPT !.extensions = <<ImportedX>>, !.enabled = FALSE,
                             !.userGroupIds = g] : g \in GroupLists}
  \cup {[BaseDocument EXCEPT !.extensions = <<ImportedY>>, !.originId = <<1>>]}
  \cup {[BaseDocument EXCEPT !.version = v] : v \in {CurrentVersion, "0.9.0"}}
  \cup {[BaseDocument EXCEPT !.version = "0.9.0", !.extensions = e] :
          e \in {<<ImportedX, ImportedY>>, <<ImportedW, ImportedZ>>}}

RECURSIVE SeqOfSet(_)
SeqOfSet(S) ==
  IF S = {} THEN <<>>
  ELSE LET m == CHOOSE e \in S : TRUE IN <<m>> \o SeqOfSet(S \ {m})

\* the handler returns or throws response
Respond(p, response) ==
  /\ pc' = [pc EXCEPT ![p] = "idle"]
  /\ loc' = [loc EXCEPT ![p] = IdleLoc]
  /\ result' = [result EXCEPT ![p] = response]

\* ------------------------------------------- ExportConfigurationHandler
\* buildConfiguration(entity, explorer, true, false): the configuration model
\* with one configured extension per extension row, each with its spec
buildConfiguration(id, entity, exts) ==
  [id |-> id,
   name |-> entity.name,
   description |-> entity.description,
   enabled |-> entity.status = "enabled",
   agentName |-> entity.agentName,
   chatFooter |-> entity.chatFooter,
   chatSuggestions |-> entity.chatSuggestions,
   executorEndpoint |-> entity.executorEndpoint,
   executorHeaders |-> entity.executorHeaders,
   userGroupIds |-> SeqOfSet(entity.userGroupIds),
   extensions |->
     [i \in 1..Len(exts) |->
        [id |-> exts[i].id, name |-> exts[i].name, enabled |-> exts[i].enabled,
         values |-> exts[i].values,
         configurableArguments |-> exts[i].configurableArguments,
         spec |-> getExtension(exts[i].name)]]]

\* an export that copies the value map as it is
exportedExtensionUnmasked(ext) ==
  [name |-> ext.name, enabled |-> ext.enabled, values |-> ext.values,
   configurableArguments |-> ext.configurableArguments]

\* maskKeyValues(ext) and the push of the exported extension
exportedExtension(ext) ==
  [name |-> ext.name,
   enabled |-> ext.enabled,
   values |-> IF ext.spec # <<>> THEN maskKeyValues(ext.values, ext.spec[1])
              ELSE ext.values,
   configurableArguments |-> ext.configurableArguments]

\* a document that carries the live status
exportedDocumentLiveStatus(configuration) ==
  [version |-> CurrentVersion,
   exportedAt |-> "now",
   originId |-> <<configuration.id>>,
   name |-> configuration.name,
   description |-> configuration.description,
   enabled |-> configuration.enabled,
   agentName |-> configuration.agentName,
   chatFooter |-> configuration.chatFooter,
   chatSuggestions |-> configuration.chatSuggestions,
   executorEndpoint |-> configuration.executorEndpoint,
   executorHeaders |-> configuration.executorHeaders,
   userGroupIds |-> <<configuration.userGroupIds>>,
   extensions |-> [i \in 1..Len(configuration.extensions) |->
                     exportedExtension(configuration.extensions[i])]]

exportedDocument(configuration) ==
  [version |-> CurrentVersion,
   exportedAt |-> "now",
   originId |-> <<configuration.id>>,
   name |-> configuration.name,
   description |-> configuration.description,
   enabled |-> FALSE,
   agentName |-> configuration.agentName,
   chatFooter |-> configuration.chatFooter,
   chatSuggestions |-> configuration.chatSuggestions,
   executorEndpoint |-> configuration.executorEndpoint,
   executorHeaders |-> configuration.executorHeaders,
   userGroupIds |-> <<configuration.userGroupIds>>,
   extensions |-> [i \in 1..Len(configuration.extensions) |->
                     exportedExtension(configuration.extensions[i])]]

\* ExportConfigurationHandler.execute: one read, then the document is built
ExportConfiguration(p) ==
  /\ CanStart(p)
  /\ \E id \in 1..nextCfgId :
       IF id \notin DOMAIN configs
       THEN Respond(p, [op |-> "export", res |-> "NotFound", id |-> id])
       ELSE LET configuration ==
                  buildConfiguration(id, configs[id], SeqById(ExtsOf(id)))
            IN Respond(p, [op |-> "export", res |-> "ok", id |-> id,
                           document |-> exportedDocument(configuration)])
  /\ opsStarted' = opsStarted + 1
  /\ StoreUnchanged

\* ------------------------------------------- ImportConfigurationHandler
\* an availability check that stops at the first unresolved name
unavailableFirstOnly(data) ==
  LET missing == SelectSeq(data.extensions, LAMBDA ext : getExtension(ext.name) = <<>>)
  IN IF missing = <<>> THEN <<>> ELSE <<missing[1].name>>

\* the names of the document's extensions that getExtension does not find,
\* in document order
unavailableExtensions(data) ==
  LET missing == SelectSeq(data.extensions, LAMBDA ext : getExtension(ext.name) = <<>>)
  IN [i \in 1..Len(missing) |-> missing[i].name]

\* an import that does not validate the values
invalidExtensionNone(data) == <<>>

\* the first extension of the document whose values validateConfiguration
\* rejects, with the error
invalidExtension(data) ==
  LET bad == {i \in 1..Len(data.extensions) :
                /\ getExtension(data.extensions[i].name) # <<>>
                /\ validateConfiguration(data.extensions[i].values,
                                         getExtension(data.extensions[i].name)[1]) # <<>>}
  IN IF bad = {} THEN <<>>
     ELSE LET i == CHOOSE j \in bad : \A k \in bad : j <= k
          IN <<[name |-> data.extensions[i].name,
                error |-> validateConfiguration(data.extensions[i].values,
                                                getExtension(data.extensions[i].name)[1])]>>

\* a handler that validates the values before it checks availability
validateDocumentValuesFirst(data) ==
  IF invalidExtension(data) # <<>>
  THEN <<[text |-> "Invalid configuration for extension",
          items |-> <<invalidExtension(data)[1].name>>,
          error |-> invalidExtension(data)[1].error]>>
  ELSE IF unavailableExtensions(data) # <<>>
  THEN <<[text |-> "The following extensions are not available in this system",
          items |-> unavailableExtensions(data), error |-> <<>>]>>
  ELSE <<>>

\* checks that refuse a document of another version
validateDocumentSameVersion(data) ==
  IF data.version # Undef /\ data.version # CurrentVersion
  THEN <<[text |-> "Unsupported version", items |-> <<data.version>>, error |-> <<>>]>>
  ELSE IF unavailableExtensions(data) # <<>>
  THEN <<[text |-> "The following extensions are not available in this system",
          items |-> unavailableExtensions(data), error |-> <<>>]>>
  ELSE IF invalidExtension(data) # <<>>
  THEN <<[text |-> "Invalid configuration for extension",
          items |-> <<invalidExtension(data)[1].name>>,
          error |-> invalidExtension(data)[1].error]>>
  ELSE <<>>

\* the checks before the first await: <<>>, or the BadRequest message
validateDocument(data) ==
  IF unavailableExtensions(data) # <<>>
  THEN <<[text |-> "The following extensions are not available in this system",
          items |-> unavailableExtensions(data), error |-> <<>>]>>
  ELSE IF invalidExtension(data) # <<>>
  THEN <<[text |-> "Invalid configuration for extension",
          items |-> <<invalidExtension(data)[1].name>>,
          error |-> invalidExtension(data)[1].error]>>
  ELSE <<>>

NoMessage == [text |-> "", items |-> <<>>, error |-> <<>>]

\* what the caller and the log hold after the request for data
ImportResponse(data, res, message, logged, id) ==
  [op |-> "import", data |-> data, res |-> res, message |-> message,
   logged |-> logged, id |-> id]

\* documents exported earlier can be sent back
ExportedDocuments ==
  {result[q].document : q \in {r \in Procs : result[r].op = "export" /\ result[r].res = "ok"}}

\* ImportConfigurationHandler.execute up to its first await
ImportConfiguration(p) ==
  /\ CanStart(p)
  /\ \E data \in Documents \cup ExportedDocuments :
       LET versionWarning ==
             IF data.version # Undef /\ data.version # CurrentVersion
             THEN <<[level |-> "warn", text |-> "Importing configuration from version",
                     items |-> <<data.version>>]>>
             ELSE <<>>
           failure == validateDocument(data)
       IN IF failure # <<>>
          THEN Respond(p, ImportResponse(data, "BadRequest", failure[1],
                            Append(versionWarning,
                                   [level |-> "error", text |-> failure[1].text,
                                    items |-> failure[1].items]), 0))
          ELSE /\ loc' = [loc EXCEPT ![p] =
                   [IdleLoc EXCEPT !.op = "import", !.data = data,
                                   !.logged = versionWarning]]
               /\ pc' = [pc EXCEPT ![p] =
                   IF data.userGroupIds # <<>> /\ Len(data.userGroupIds[1]) > 0
                   THEN "im_groups" ELSE "im_save"]
               /\ UNCHANGED result
  /\ opsStarted' = opsStarted + 1
  /\ StoreUnchanged

\* this.userGroupRepository.findBy({ id: In(ids) })
findBy(ids) == {g \in Groups : \E i \in 1..Len(ids) : ids[i] = g}

\* an import that goes on without any group
noneExistIgnored(userGroups) == FALSE

noneExist(userGroups) == Cardinality(userGroups) = 0

\* the warning of an import that found fewer groups than the document has ids
missingGroupsWarning(ids, userGroups) ==
  IF Cardinality(userGroups) < Len(ids)
  THEN <<[level |-> "warn", text |-> "Some user groups not found during import",
          items |-> SelectSeq(ids, LAMBDA id : id \notin userGroups)]>>
  ELSE <<>>

\* the lookup of the user groups and the checks on what it returns
ImportConfigurationGroups(p) ==
  /\ pc[p] = "im_groups"
  /\ LET ids == loc[p].data.userGroupIds[1]
         userGroups == findBy(ids)
     IN IF noneExist(userGroups)
        THEN Respond(p, ImportResponse(loc[p].data, "BadRequest",
                          [text |-> "Cannot import configuration: none of the specified user groups exist in this system",
                           items |-> <<>>, error |-> <<>>],
                          Append(loc[p].logged,
                                 [level |-> "warn",
                                  text |-> "none of the specified user groups exist in this system",
                                  items |-> ids]), 0))
        ELSE /\ loc' = [loc EXCEPT ![p].userGroups = userGroups,
                                   ![p].logged = @ \o missingGroupsWarning(ids, userGroups)]
             /\ pc' = [pc EXCEPT ![p] = "im_save"]
             /\ UNCHANGED result
  /\ StoreUnchanged
  /\ UNCHANGED opsStarted

\* the new ConfigurationEntity the handler fills from the document
importedRow(data, userGroups) ==
  [name |-> data.name,
   description |-> data.description,
   status |-> IF data.enabled THEN "enabled" ELSE "disabled",
   agentName |-> data.agentName,
   chatFooter |-> data.chatFooter,
   chatSuggestions |-> data.chatSuggestions,
   executorEndpoint |-> data.executorEndpoint,
   executorHeaders |-> data.executorHeaders,
   userGroupIds |-> userGroups]

\* a save that writes over the configuration the document came from
ImportConfigurationSaveOverOrigin(p) ==
  /\ pc[p] = "im_save"
  /\ LET data == loc[p].data
         id == IF data.originId # <<>> /\ data.originId[1] \in DOMAIN configs
               THEN data.originId[1] ELSE nextCfgId
     IN /\ configs' = (id :> importedRow(data, loc[p].userGroups)) @@ configs
        /\ nextCfgId' = IF id = nextCfgId THEN nextCfgId + 1 ELSE nextCfgId
        /\ loc' = [loc EXCEPT ![p].cfgId = id]
  /\ pc' = [pc EXCEPT ![p] = "im_extensions"]
  /\ UNCHANGED <<extensions, history, nextExtId, lock, result, opsStarted>>

\* this.repository.save(configurationEntity): an INSERT, the id comes from
\* the sequence
ImportConfigurationSave(p) ==
  /\ pc[p] = "im_save"
  /\ configs' = configs @@ (nextCfgId :> importedRow(loc[p].data, loc[p].userGroups))
  /\ nextCfgId' = nextCfgId + 1
  /\ loc' = [loc EXCEPT ![p].cfgId = nextCfgId]
  /\ pc' = [pc EXCEPT ![p] = "im_extensions"]
  /\ UNCHANGED <<extensions, history, nextExtId, lock, result, opsStarted>>

\* extension rows that keep only the keys their type declares
importedExtensionsDeclaredOnly(data, cfgId, firstId) ==
  {[id |-> firstId + i - 1,
    configurationId |-> cfgId,
    name |-> data.extensions[i].name,
    externalId |-> ToString(cfgId) \o "-" \o data.extensions[i].name,
    enabled |-> data.extensions[i].enabled,
    values |-> IF data.extensions[i].name \in DOMAIN Registry
               THEN [k \in DOMAIN data.extensions[i].values
                            \cap DOMAIN Registry[data.extensions[i].name]
                       |-> data.extensions[i].values[k]]
               ELSE data.extensions[i].values,
    state |-> Undef,
    configurableArguments |-> data.extensions[i].configurableArguments]
     : i \in 1..Len(data.extensions)}

\* extension rows whose externalId is built from the origin id of the
\* document, when it has one
importedExtensionsOriginId(data, cfgId, firstId) ==
  {[id |-> firstId + i - 1,
    configurationId |-> cfgId,
    name |-> data.extensions[i].name,
    externalId |-> ToString(IF data.originId # <<>> THEN data.originId[1] ELSE cfgId)
                     \o "-" \o data.extensions[i].name,
    enabled |-> data.extensions[i].enabled,
    values |-> data.extensions[i].values,
    state |-> Undef,
    configurableArguments |-> data.extensions[i].configurableArguments]
     : i \in 1..Len(data.extensions)}

\* the ExtensionEntity rows the handler fills from the document
importedExtensions(data, cfgId, firstId) ==
  {[id |-> firstId + i - 1,
    configurationId |-> cfgId,
    name |-> data.extensions[i].name,
    externalId |-> ToString(cfgId) \o "-" \o data.extensions[i].name,
    enabled |-> data.extensions[i].enabled,
    values |-> data.extensions[i].values,
    state |-> Undef,
    configurableArguments |-> data.extensions[i].configurableArguments]
     : i \in 1..Len(data.extensions)}

\* extensions table: externalId is unique per configuration
externalIdViolation(rows, new) ==
  \E e \in new : \E f \in (rows \cup new) \ {e} :
    /\ f.configurationId = e.configurationId
    /\ f.externalId = e.externalId

\* this.extensionRepository.save(extensionEntities): the rows are inserted
\* together, unless the table rejects one of them
ImportConfigurationSaveExtensions(p) ==
  /\ pc[p] = "im_extensions"
  /\ ~externalIdViolation(extensions,
                          importedExtensions(loc[p].data, loc[p].cfgId, nextExtId))
  /\ extensions' = extensions \cup importedExtensions(loc[p].data, loc[p].cfgId, nextExtId)
  /\ nextExtId' = nextExtId + Len(loc[p].data.extensions)
  /\ pc' = [pc EXCEPT ![p] = "im_reload"]
  /\ UNCHANGED <<configs, history, nextCfgId, lock, loc, result, opsStarted>>

\* the database rejects the save of the extension rows: the error leaves the
\* handler, which has no transaction around its two saves
ImportConfigurationSaveExtensionsFail(p) ==
  /\ pc[p] = "im_extensions"
  /\ Respond(p, ImportResponse(loc[p].data, "QueryFailed", NoMessage, loc[p].logged, 0))
  /\ StoreUnchanged
  /\ UNCHANGED opsStarted

\* the reload of the saved configuration and the response
ImportConfigurationReload(p) ==
  /\ pc[p] = "im_reload"
  /\ IF loc[p].cfgId \notin DOMAIN configs
     THEN Respond(p, ImportResponse(loc[p].data, "BadRequest",
                       [text |-> "Failed to reload imported configuration",
                        items |-> <<>>, error |-> <<>>],
                       Append(loc[p].logged,
                              [level |-> "error",
                               text |-> "Could not reload configuration after save",
                               items |-> <<>>]), 0))
     ELSE Respond(p, ImportResponse(loc[p].data, "ok", NoMessage, loc[p].logged,
                                    loc[p].cfgId))
  /\ StoreUnchanged
  /\ UNCHANGED opsStarted

NextPortable ==
  \E p \in Procs :
    \/ ExportConfiguration(p)
    \/ ImportConfiguration(p)
    \/ ImportConfigurationGroups(p)
    \/ ImportConfigurationSave(p)
    \/ ImportConfigurationSaveExtensions(p)
    \/ ImportConfigurationSaveExtensionsFail(p)
    \/ ImportConfigurationReload(p)

\* a second configuration, whose only extension is of a registered type
\* with an optional secret
Row2 ==
  [name |-> "Helper Bot", description |-> "d4", status |-> "enabled",
   agentName |-> "a4", chatFooter |-> Undef, chatSuggestions |-> "s4",
   executorEndpoint |-> Undef, executorHeaders |-> "h4", userGroupIds |-> {"g1"}]

Ext4 ==
  [id |-> 4, configurationId |-> 2, name |-> "y", externalId |-> "2-y",
   enabled |-> TRUE,
   values |-> [auth |-> [token |-> "tk-two", user |-> "amy"], region |-> "eu"],
   state |-> "st4", configurableArguments |-> "ca4"]

\* the store before the first export or import: configuration 1 with its
\* extensions and one history entry, and configuration 2
InitPortable ==
  /\ configs = (1 :> assignValues(Row1, FirstUpdate)) @@ (2 :> Row2)
  /\ history = <<Entry1>>
  /\ extensions = {Ext1, Ext2, Ext3, Ext4}
  /\ nextCfgId = 3
  /\ nextExtId = 5
  /\ lock = [c \in CfgIds |-> "none"]
  /\ pc = [p \in Procs |-> "idle"]
  /\ loc = [p \in Procs |-> IdleLoc]
  /\ result = [p \in Procs |-> [op |-> "none", res |-> "none"]]
  /\ opsStarted = 0

SpecPortable == InitPortable /\ [][NextPortable]_vars

\* import and restore, the two writers of extension rows with externalIds
\* taken from a document or a snapshot, and export, the second user of the
\* masking besides the snapshot
NextExtensions ==
  \E p \in Procs :
    \/ ExportConfiguration(p)
    \/ ImportConfiguration(p)
    \/ ImportConfigurationGroups(p)
    \/ ImportConfigurationSave(p)
    \/ ImportConfigurationSaveExtensions(p)
    \/ ImportConfigurationSaveExtensionsFail(p)
    \/ ImportConfigurationReload(p)
    \/ restoreVersion(p)
    \/ restoreVersionLoad(p)
    \/ restoreVersionCommit(p)
    \/ restoreVersionRollback(p)
    \/ saveSnapshot(p)
    \/ createSnapshotSelect(p)
    \/ createSnapshotFail(p)
    \/ createSnapshotSave(p)

SpecExtensions == InitPortable /\ [][NextExtensions]_vars

\* ------------------------------------------------------ history queries
\* the entries two configurations have after some updates and a restore;
\* the sequence is in the order of creation (createdAt)
Entry2 ==
  [configurationId |-> 2, version |-> 1, action |-> "update", changedBy |-> "u1",
   snapshot |-> buildSnapshot(Row2, <<Ext4>>),
   changeComment |-> <<"Configuration updated">>]

Entry3 ==
  [configurationId |-> 1, version |-> 2, action |-> "restore", changedBy |-> "u1",
   snapshot |-> buildSnapshot(assignValues(Row1, FirstUpdate), <<Ext1, Ext2, Ext3>>),
   changeComment |-> <<"Restoring to version", 1>>]

Entry4 ==
  [configurationId |-> 1, version |-> 3, action |-> "update", changedBy |-> "u1",
   snapshot |-> buildSnapshot(Row1, <<Ext1, Ext2, Ext3>>),
   changeComment |-> <<"Configuration updated">>]

Histories ==
  {<<>>, <<Entry1>>, <<Entry1, Entry2>>, <<Entry1, Entry3, Entry2>>,
   <<Entry1, Entry2, Entry3, Entry4>>}

\* order: { version: 'DESC' }
RECURSIVE byVersionDesc(_)
byVersionDesc(rows) ==
  IF rows = {} THEN <<>>
  ELSE LET first == CHOOSE e \in rows : \A f \in rows : f.version <= e.version
       IN <<first>> \o byVersionDesc(rows \ {first})

\* historyRepo.find({ where: { configurationId }, order: { version: 'DESC' } })
findHistory(c) == byVersionDesc({history[i] : i \in HistoryOf(c)})

\* ConfigurationHistoryService.getHistory: the rows the repository finds
getHistory(p) ==
  /\ CanStart(p)
  /\ \E c \in 1..nextCfgId :
       Respond(p, [op |-> "getHistory", res |-> "ok", id |-> c,
                   entries |-> findHistory(c)])
  /\ opsStarted' = opsStarted + 1
  /\ StoreUnchanged

\* ConfigurationHistoryService.getVersion: NotFoundException when the
\* repository finds no row
getVersionRequest(p) ==
  /\ CanStart(p)
  /\ \E c \in 1..nextCfgId : \E version \in 1..(MaxVersion(c) + 1) :
       LET historyEntity == getVersion(c, version) IN
       Respond(p, [op |-> "getVersion",
                   res |-> IF historyEntity = <<>> THEN "NotFound" ELSE "ok",
                   id |-> c, version |-> version, entry |-> historyEntity])
  /\ opsStarted' = opsStarted + 1
  /\ StoreUnchanged

\* historyRepo.findOne({ where: { configurationId }, order: { version: 'DESC' } })
findLatest(c) ==
  IF HistoryOf(c) = {} THEN <<>> ELSE <<findHistory(c)[1]>>

\* ConfigurationHistoryRepository.getLatestVersion: the row or null
getLatestVersion(p) ==
  /\ CanStart(p)
  /\ \E c \in 1..nextCfgId :
       Respond(p, [op |-> "getLatestVersion", res |-> "ok", id |-> c,
                   entry |-> findLatest(c)])
  /\ opsStarted' = opsStarted + 1
  /\ StoreUnchanged

\* the values of the query parameter 'limit': absent, or a number
DefaultLimit == 50
Limits == {<<>>, <<1>>, <<2>>, <<3>>}

\* @Query('limit', ParseIntPipe): the pipe accepts a numeric string only, a
\* missing parameter is rejected
ParseIntPipe(value) == value # <<>>

\* limit: number = 50
limitOrDefault(value) == IF value = <<>> THEN DefaultLimit ELSE value[1]

\* historyRepo.find({ order: { createdAt: 'DESC' }, take: limit })
findRecent(limit) ==
  LET n == Len(history)
      k == IF limit < n THEN limit ELSE n
  IN [i \in 1..k |-> history[n + 1 - i]]

\* ConfigurationsController.getRecentChanges
getRecentChanges(p) ==
  /\ CanStart(p)
  /\ \E value \in Limits :
       IF ~ParseIntPipe(value)
       THEN Respond(p, [op |-> "getRecentChanges", res |-> "BadRequest",
                        limit |-> value, entries |-> <<>>])
       ELSE Respond(p, [op |-> "getRecentChanges", res |-> "ok",
                        limit |-> value,
                        entries |-> findRecent(limitOrDefault(value))])
  /\ opsStarted' = opsStarted + 1
  /\ StoreUnchanged

NextQueries ==
  \E p \in Procs :
    \/ getHistory(p)
    \/ getVersionRequest(p)
    \/ getLatestVersion(p)
    \/ getRecentChanges(p)

\* the store the queries read: two configurations and one of the histories
InitQueries ==
  /\ configs = (1 :> assignValues(Row1, FirstUpdate)) @@ (2 :> Row2)
  /\ history \in Histories
  /\ extensions = {Ext1, Ext2, Ext3, Ext4}
  /\ nextCfgId = 3
  /\ nextExtId = 5
  /\ lock = [c \in CfgIds |-> "none"]
  /\ pc = [p \in Procs |-> "idle"]
  /\ loc = [p \in Procs |-> IdleLoc]
  /\ result = [p \in Procs |-> [op |-> "none", res |-> "none"]]
  /\ opsStarted = 0

SpecQueries == InitQueries /\ [][NextQueries]_vars

\* ============================================================= properties

InSnapshotTx(p) == pc[p] \in {"cs_select", "cs_insert"}

\* C1: in every reachable state, whatever the interleaving of the
\* createSnapshot calls issued by create, update, delete-extension and
\* restore, no two history entries have the same (configurationId, version).
C1_UniqueVersions ==
  \A i, j \in 1..Len(history) :
    i # j => ~ (/\ history[i].configurationId = history[j].configurationId
                /\ history[i].version = history[j].version)

\* a caller is about to insert a version that a concurrent caller has taken
C1_Witness ==
  \E p \in Procs :
    /\ pc[p] = "cs_insert"
    /\ loc[p].max < MaxVersion(loc[p].cfgId)

\* C2: for every configuration the versions of its history entries are
\* exactly 1..n, n the number of its entries: no duplicate, no gap, from 1.
C2_GaplessVersions ==
  \A c \in CfgIds :
    {history[i].version : i \in HistoryOf(c)} = 1..Cardinality(HistoryOf(c))

\* three snapshots of one configuration have been stored
C2_Witness == \E c \in CfgIds : Cardinality(HistoryOf(c)) >= 3

\* C3: two concurrent createSnapshot calls for the same configuration never
\* both hold the same current maximum, so that none of them computes a
\* version the other one computes too (also when there is no entry yet).
C3_SerializedAllocation ==
  \A p, q \in Procs :
    (/\ p # q
     /\ pc[p] = "cs_insert" /\ pc[q] = "cs_insert"
     /\ loc[p].cfgId = loc[q].cfgId)
    => loc[p].max # loc[q].max

\* C4: history is append-only: no step changes or removes an existing entry.
C4_AppendOnly ==
  [][/\ Len(history') >= Len(history)
     /\ \A i \in 1..Len(history) : history'[i] = history[i]]_vars

\* a restore has rewritten the live rows while history entries existed, and
\* at least two entries are stored
C4_Witness == Len(history) >= 2 /\ nextExtId > 3

\* ------------------------------------------------------------------ restore
RestoreCommits(p) ==
  /\ loc[p].op = "restore" /\ pc[p] = "rs_tx"
  /\ pc'[p] = "idle" /\ result'[p].res = "ok"

\* the live row and the live extension rows of a configuration are those of
\* the snapshot, and none of the rows in old is among them
C5_RestoredTo(row, rows, old, snapshot) ==
  /\ row.name = snapshot.name
  /\ row.description = snapshot.description
  /\ row.status = snapshot.status
  /\ row.agentName = snapshot.agentName
  /\ row.chatFooter = snapshot.chatFooter
  /\ row.chatSuggestions = snapshot.chatSuggestions
  /\ row.executorEndpoint = snapshot.executorEndpoint
  /\ row.executorHeaders = snapshot.executorHeaders
  /\ LET live == SeqById(rows) IN
       /\ Len(live) = Len(snapshot.extensions)
       /\ \A i \in 1..Len(live) :
            /\ live[i].externalId = snapshot.extensions[i].externalId
            /\ live[i].name = snapshot.extensions[i].name
            /\ live[i].enabled = snapshot.extensions[i].enabled
            /\ live[i].values = snapshot.extensions[i].values
            /\ live[i].state = snapshot.extensions[i].state
            /\ live[i].configurableArguments = snapshot.extensions[i].configurableArguments
  /\ \A e \in rows : e.id \notin {f.id : f \in old}

RestoreEntryOf(p, rows) ==
  \E i \in 1..Len(rows) :
    /\ rows[i].configurationId = loc[p].id
    /\ rows[i].action = "restore"
    /\ rows[i].changeComment = <<"Restoring to version", loc[p].version>>
    /\ rows[i].snapshot = loc[p].snapshot

\* the snapshot holds the fields of the row and the extensions of rows
C6_SnapshotOfLive(snapshot, row, rows) ==
  /\ snapshot.name = row.name
  /\ snapshot.description = row.description
  /\ snapshot.status = row.status
  /\ snapshot.agentName = row.agentName
  /\ snapshot.chatFooter = row.chatFooter
  /\ snapshot.chatSuggestions = row.chatSuggestions
  /\ snapshot.executorEndpoint = row.executorEndpoint
  /\ snapshot.executorHeaders = row.executorHeaders
  /\ LET live == SeqById(rows) IN
       /\ Len(snapshot.extensions) = Len(live)
       /\ \A i \in 1..Len(live) :
            /\ snapshot.extensions[i].externalId = live[i].externalId
            /\ snapshot.extensions[i].name = live[i].name
            /\ snapshot.extensions[i].enabled = live[i].enabled

\* C6: when the restore transaction of a restoreVersion starts, the history
\* holds its entry with action 'restore' and a comment naming the target
\* version; the snapshot of that entry was read from the live state before
\* this restore wrote anything.
C6_SnapshotBeforeRestore ==
  /\ [](\A p \in Procs :
          (loc[p].op = "restore" /\ pc[p] \in {"rs_load", "rs_tx"})
          => RestoreEntryOf(p, history))
  /\ [][\A p \in Procs :
          (loc[p].op = "restore" /\ pc[p] = "ss_find" /\ pc'[p] = "cs_select")
          => C6_SnapshotOfLive(loc'[p].snapshot, configs[loc[p].id],
                               ExtsOf(loc[p].id))]_vars

\* a restore is about to start its transaction, its entry is version 2 or more
C6_Witness ==
  \E p \in Procs :
    /\ loc[p].op = "restore" /\ pc[p] = "rs_load"
    /\ Len(history) >= 2

\* C7: when the restore transaction fails, the live configuration and all
\* extensions are as before, the caller gets the error and the pre-restore
\* entry stays in the history.
C7_RollbackLeavesLive ==
  [][\A p \in Procs :
       (/\ loc[p].op = "restore" /\ pc[p] \in {"rs_load", "rs_tx"}
        /\ pc'[p] = "idle" /\ result'[p].res # "ok")
       => /\ configs' = configs
          /\ extensions' = extensions
          /\ result'[p].op = "restore"
          /\ result'[p].res \in {"NotFound", "QueryFailed"}
          /\ RestoreEntryOf(p, history')]_vars

\* the only request so far was a restore that wrote its entry and then failed
C7_Witness ==
  /\ opsStarted = 1
  /\ \E p \in Procs : result[p] = [op |-> "restore", res |-> "QueryFailed"]
  /\ \E i \in 1..Len(history) : history[i].action = "restore"

\* C8: restoreVersion for a version that does not exist fails with NotFound
\* and changes nothing: a restore only proceeds for a version that is in the
\* history, and the restoreVersion step that ends the request at the lookup
\* reports NotFound and leaves history, configuration and extensions as they
\* are.
C8_MissingVersion ==
  /\ [](\A p \in Procs :
          loc[p].op = "restore"
          => \E i \in HistoryOf(loc[p].id) : history[i].version = loc[p].version)
  /\ [][\A p \in Procs :
          (restoreVersion(p) /\ pc'[p] = "idle")
          => /\ result'[p] = [op |-> "restore", res |-> "NotFound"]
             /\ history' = history
             /\ configs' = configs
             /\ extensions' = extensions]_vars

\* a restore of a missing version of a configuration that has history has
\* been answered with NotFound
C8_Witness ==
  /\ \E p \in Procs : result[p] = [op |-> "restore", res |-> "NotFound"]
  /\ history # <<>>

\* C9: between the load of the restore transaction and its commit no other
\* request changes the configuration row or its set of extensions.
C9_RowLockHeld ==
  [][\A p \in Procs :
       (loc[p].op = "restore" /\ pc[p] = "rs_tx" /\ pc'[p] = "rs_tx")
       => /\ configs'[loc[p].id] = configs[loc[p].id]
          /\ {e \in extensions' : e.configurationId = loc[p].id} = ExtsOf(loc[p].id)]_vars

\* C10: a failure of the safety snapshot of update-configuration,
\* delete-extension or restore is not escalated: the request goes on to its
\* mutation.
C10_SnapshotFailureTolerated ==
  [][\A p \in Procs :
       (/\ loc[p].op \in {"update", "delete-extension", "restore"}
        /\ pc[p] \in {"ss_find", "cs_select", "cs_insert"}
        /\ pc'[p] = "idle")
       => FALSE]_vars

\* C11: in every persisted history entry, for every extension snapshot whose
\* type is registered, every value whose argument descriptor has format
\* 'password' (at top level or inside a nested object argument) is the
\* placeholder: no real secret of a registered type is stored in history.
RECURSIVE SecretsMasked(_, _)
SecretsMasked(values, args) ==
  \A k \in DOMAIN values \cap DOMAIN args :
     IF args[k].format = "password" THEN values[k] = Placeholder
     ELSE args[k].type = "object" => SecretsMasked(values[k], args[k].properties)

C11_HistoryMasked ==
  \A i \in 1..Len(history) :
    \A j \in 1..Len(history[i].snapshot.extensions) :
      LET e == history[i].snapshot.extensions[j]
      IN e.name \in DOMAIN Registry => SecretsMasked(e.values, Registry[e.name])

\* a snapshot taken by a request while the live rows hold real secrets, top
\* level and nested
C11_Witness ==
  /\ \E e \in extensions : e.name = "x" /\ e.values.apiKey = "sk-real-123"
  /\ \E e \in extensions : e.name = "y" /\ e.values.auth.token = "tk-real"
  /\ \E i \in 1..Len(history) :
       /\ history[i] # Entry1
       /\ \E j \in 1..Len(history[i].snapshot.extensions) :
            LET e == history[i].snapshot.extensions[j]
            IN e.name = "y" /\ e.values.auth.token = Placeholder
       /\ \E j \in 1..Len(history[i].snapshot.extensions) :
            LET e == history[i].snapshot.extensions[j]
            IN e.name = "x" /\ e.values.apiKey = Placeholder

\* C13: when an extension's type name is not in the registry, buildSnapshot
\* still produces a snapshot with one entry per live extension, and the entry
\* of that extension carries its value map unmasked, equal to the live values.
C13_UnregisteredUnmasked ==
  [][\A p \in Procs :
       (saveSnapshot(p) /\ pc'[p] = "cs_select")
       => LET exts == SeqById(ExtsOf(loc[p].cfgId))
              snapshot == loc'[p].snapshot
          IN /\ Len(snapshot.extensions) = Len(exts)
             /\ \A i \in 1..Len(exts) :
                  /\ snapshot.extensions[i].name = exts[i].name
                  /\ snapshot.extensions[i].externalId = exts[i].externalId
                  /\ getExtension(exts[i].name) = <<>>
                     => snapshot.extensions[i].values = exts[i].values]_vars

\* a request has built its snapshot of a configuration that holds the
\* unregistered extension z, and the later insert has stored it
C13_Witness ==
  \E i \in 1..Len(history) :
    /\ history[i] # Entry1
    /\ \E j \in 1..Len(history[i].snapshot.extensions) :
         LET e == history[i].snapshot.extensions[j]
         IN e.name = "z" /\ e.values = [secret |-> "zz-real"]

\* C12: in every exported document, each extension value whose
\* schema-declared format is 'password' is exactly the placeholder, whatever
\* the live value, and every other value is identical to the live value.
RECURSIVE MaskedImage(_, _, _)
MaskedImage(out, live, args) ==
  /\ DOMAIN out = DOMAIN live
  /\ \A k \in DOMAIN live :
       IF k \in DOMAIN args /\ args[k].format = "password"
       THEN out[k] = Placeholder
       ELSE IF k \in DOMAIN args /\ args[k].type = "object"
       THEN MaskedImage(out[k], live[k], args[k].properties)
       ELSE out[k] = live[k]

C12_ExportMasked ==
  [][\A p \in Procs :
       (ExportConfiguration(p) /\ result'[p].op = "export" /\ result'[p].res = "ok")
       => \E id \in DOMAIN configs :
            LET live == SeqById(ExtsOf(id))
                out == result'[p].document.extensions
            IN /\ result'[p].document.originId = <<id>>
               /\ Len(out) = Len(live)
               /\ \A i \in 1..Len(live) :
                    /\ out[i].name = live[i].name
                    /\ live[i].name \in DOMAIN Registry
                       => MaskedImage(out[i].values, live[i].values,
                                      Registry[live[i].name])]_vars

\* configuration 1 has been exported while its rows hold real secrets
C12_Witness ==
  \E p \in Procs :
    /\ result[p].op = "export" /\ result[p].res = "ok"
    /\ result[p].document.originId = <<1>>
    /\ \E e \in extensions : e.configurationId = 1 /\ e.name = "x"
                             /\ e.values.apiKey = "sk-real-123"
    /\ \E i \in 1..Len(result[p].document.extensions) :
         LET out == result[p].document.extensions[i]
         IN out.name = "x" /\ out.values.apiKey = Placeholder
            /\ out.values.endpoint = "https://x"
    /\ \E i \in 1..Len(result[p].document.extensions) :
         LET out == result[p].document.extensions[i]
         IN out.name = "y" /\ out.values.auth = [token |-> Placeholder, user |-> "bob"]

\* the document of the import request that p has just started
StartedData(p) == IF pc'[p] = "idle" THEN result'[p].data ELSE loc'[p].data

RECURSIVE Unresolved(_)
Unresolved(exts) ==
  IF exts = <<>> THEN <<>>
  ELSE (IF Head(exts).name \in DOMAIN Registry THEN <<>> ELSE <<Head(exts).name>>)
       \o Unresolved(Tail(exts))

\* C14: an import of a document that references extension type names which
\* are not in the registry fails with one BadRequest whose message lists
\* every unresolved name, in document order, and no configuration or
\* extension row is persisted.
C14_UnavailableListed ==
  [][\A p \in Procs :
       (ImportConfiguration(p) /\ Unresolved(StartedData(p).extensions) # <<>>)
       => /\ pc'[p] = "idle"
          /\ result'[p].res = "BadRequest"
          /\ result'[p].message.text
               = "The following extensions are not available in this system"
          /\ result'[p].message.items = Unresolved(result'[p].data.extensions)
          /\ configs' = configs
          /\ extensions' = extensions
          /\ nextCfgId' = nextCfgId
          /\ nextExtId' = nextExtId]_vars

\* an import of a document with two unregistered types has been answered
\* with both names
C14_Witness ==
  \E p \in Procs :
    /\ result[p].op = "import"
    /\ Len(result[p].data.extensions) = 2
    /\ result[p].data.extensions[1].name = "w"
    /\ result[p].data.extensions[2].name = "z"
    /\ result[p].res = "BadRequest"
    /\ result[p].message.items = <<"w", "z">>

\* an extension of a registered type whose values break a validation rule
InvalidValues(ext) ==
  /\ ext.name \in DOMAIN Registry
  /\ violations(ext.values, Registry[ext.name], <<>>) # {}

FirstInvalid(exts) ==
  LET bad == {i \in 1..Len(exts) : InvalidValues(exts[i])}
  IN CHOOSE i \in bad : \A j \in bad : i <= j

\* C15: import checks the availability of all referenced extension types
\* before it validates any values: a document with both an extension with
\* invalid values and an unavailable type, in any order, fails with the
\* availability error that lists the unavailable types; when all types are
\* available, validation fails on the first invalid extension.
C15_AvailabilityFirst ==
  [][\A p \in Procs :
       (ImportConfiguration(p)
          /\ \E i \in 1..Len(StartedData(p).extensions) :
               InvalidValues(StartedData(p).extensions[i]))
       => LET exts == result'[p].data.extensions IN
          /\ pc'[p] = "idle"
          /\ result'[p].res = "BadRequest"
          /\ IF Unresolved(exts) # <<>>
             THEN /\ result'[p].message.text
                       = "The following extensions are not available in this system"
                  /\ result'[p].message.items = Unresolved(exts)
             ELSE /\ result'[p].message.text = "Invalid configuration for extension"
                  /\ result'[p].message.items = <<exts[FirstInvalid(exts)].name>>]_vars

\* a document whose first extension has invalid values and whose second is
\* of an unavailable type has been answered with the availability error
C15_Witness ==
  \E p \in Procs :
    /\ result[p].op = "import"
    /\ Len(result[p].data.extensions) = 2
    /\ InvalidValues(result[p].data.extensions[1])
    /\ result[p].data.extensions[2].name \notin DOMAIN Registry
    /\ result[p].res = "BadRequest"
    /\ result[p].message.items = <<"z">>

\* a required secret argument of the extension's type holds the placeholder
RECURSIVE RequiredSecretMasked(_, _)
RequiredSecretMasked(values, args) ==
  \E k \in DOMAIN values \cap DOMAIN args :
     IF args[k].type = "object" THEN RequiredSecretMasked(values[k], args[k].properties)
     ELSE args[k].required /\ args[k].format = "password" /\ values[k] = Placeholder

NamedGroups(data) ==
  IF data.userGroupIds = <<>> THEN {}
  ELSE {data.userGroupIds[1][i] : i \in 1..Len(data.userGroupIds[1])}

\* C17: when the imported document names at least one group id and none of
\* the named ids exists, the import fails with BadRequest and no
\* configuration or extension row is persisted.
C17_NoGroupExists ==
  /\ [](\A p \in Procs :
          (/\ loc[p].op = "import"
           /\ NamedGroups(loc[p].data) # {}
           /\ NamedGroups(loc[p].data) \cap Groups = {})
          => pc[p] = "im_groups")
  /\ [][\A p \in Procs :
          (/\ ImportConfigurationGroups(p)
           /\ NamedGroups(loc[p].data) \cap Groups = {})
          => /\ pc'[p] = "idle"
             /\ result'[p].res = "BadRequest"
             /\ result'[p].message.text
                  = "Cannot import configuration: none of the specified user groups exist in this system"
             /\ configs' = configs
             /\ extensions' = extensions
             /\ nextCfgId' = nextCfgId
             /\ nextExtId' = nextExtId]_vars

\* a document naming only the unknown groups g9 and g8 has been refused
C17_Witness ==
  \E p \in Procs :
    /\ result[p].op = "import"
    /\ NamedGroups(result[p].data) = {"g9", "g8"}
    /\ result[p].res = "BadRequest"
    /\ result[p].message.items = <<>>
    /\ result[p].logged # <<>>
    /\ result[p].logged[Len(result[p].logged)].items = <<"g9", "g8">>

\* the missing-groups warnings among the log lines
MissingGroupsWarnings(logged) ==
  {i \in 1..Len(logged) : logged[i].text = "Some user groups not found during import"}

\* C18: when some but not all of the group ids the document names exist, the
\* import goes on, the new configuration is associated with exactly the
\* existing ones and a warning names exactly the missing ids; the
\* missing-groups warning is logged only when at least one named id does not
\* exist.
C18_PartialGroups ==
  [][\A p \in Procs :
       /\ ImportConfigurationGroups(p)
          => LET named == NamedGroups(loc[p].data)
                 missing == named \ Groups
                 warned == MissingGroupsWarnings(loc'[p].logged)
             IN /\ (named \cap Groups # {} /\ missing # {})
                   => /\ pc'[p] = "im_save"
                      /\ loc'[p].userGroups = named \cap Groups
                      /\ \E i \in warned :
                           {loc'[p].logged[i].items[j]
                              : j \in 1..Len(loc'[p].logged[i].items)} = missing
                /\ warned # {} => missing # {}
       /\ ImportConfigurationSave(p)
          => configs'[nextCfgId].userGroupIds = NamedGroups(loc[p].data) \cap Groups]_vars

\* a step of an import by which its handler returns or throws
ImportEnds(p) ==
  /\ \/ ImportConfiguration(p)
     \/ ImportConfigurationGroups(p)
     \/ ImportConfigurationSaveExtensionsFail(p)
     \/ ImportConfigurationReload(p)
  /\ pc'[p] = "idle"

\* C19: import is all-or-nothing: whenever an import fails at any step, also
\* while the extension rows are persisted after the configuration row was
\* saved, no new configuration row and no new extension row of it remains.
C19_AllOrNothing ==
  [][\A p \in Procs :
       (ImportEnds(p) /\ result'[p].res # "ok")
       => /\ loc[p].cfgId \notin DOMAIN configs'
          /\ \A e \in extensions' : e.configurationId # loc[p].cfgId]_vars

\* any step of an import request
ImportStep(p) ==
  \/ ImportConfiguration(p)
  \/ ImportConfigurationGroups(p)
  \/ ImportConfigurationSave(p)
  \/ ImportConfigurationSaveExtensions(p)
  \/ ImportConfigurationSaveExtensionsFail(p)
  \/ ImportConfigurationReload(p)

\* C20: a successful import creates a configuration with a new identity and
\* leaves every existing configuration (every one but the one it creates),
\* its extensions and its history unchanged, also when the document carries
\* an origin id equal to the id of an existing configuration.
C20_ImportCreatesNew ==
  [][\A p \in Procs :
       /\ ImportStep(p)
          => /\ \A c \in DOMAIN configs : c \in DOMAIN configs' /\ configs'[c] = configs[c]
             /\ \A c \in DOMAIN configs \ {loc[p].cfgId} :
                  {e \in extensions' : e.configurationId = c}
                    = {e \in extensions : e.configurationId = c}
             /\ history' = history
       /\ ImportConfigurationSave(p)
          => /\ loc'[p].cfgId \notin DOMAIN configs
             /\ DOMAIN configs' = DOMAIN configs \cup {loc'[p].cfgId}
       /\ (ImportConfigurationReload(p) /\ result'[p].res = "ok")
          => /\ result'[p].id = loc[p].cfgId
             /\ result'[p].id \in DOMAIN configs
             /\ result'[p].data.originId # <<result'[p].id>>]_vars

\* a document with origin id 1 has been imported while configuration 1
\* exists: the new configuration has another id and configuration 1 still
\* has its three extensions
C20_Witness ==
  \E p \in Procs :
    /\ result[p].op = "import" /\ result[p].res = "ok"
    /\ result[p].data.originId = <<1>>
    /\ result[p].id # 1
    /\ result[p].id \in DOMAIN configs
    /\ configs[1].description = "d1"
    /\ {e \in extensions : e.configurationId = 1} = {Ext1, Ext2, Ext3}
    /\ \E e \in extensions : e.configurationId = result[p].id /\ e.name = "y"

\* the document is what an export of its origin returns now
ExportOfOrigin(data) ==
  /\ data.originId # <<>>
  /\ data.originId[1] \in DOMAIN configs
  /\ data = exportedDocument(buildConfiguration(data.originId[1],
                                                configs[data.originId[1]],
                                                SeqById(ExtsOf(data.originId[1]))))

\* the values agree on everything but the secrets
RECURSIVE NonSecretEqual(_, _, _)
NonSecretEqual(new, old, args) ==
  /\ DOMAIN new = DOMAIN old
  /\ \A k \in DOMAIN old :
       IF k \in DOMAIN args /\ args[k].format = "password" THEN TRUE
       ELSE IF k \in DOMAIN args /\ args[k].type = "object"
       THEN NonSecretEqual(new[k], old[k], args[k].properties)
       ELSE new[k] = old[k]

\* the configuration and the extension rows agree on every non-secret field
\* but the enabled status
RoundTripEqual(row, rows, origin, originRows) ==
  /\ row.name = origin.name
  /\ row.description = origin.description
  /\ row.agentName = origin.agentName
  /\ row.chatFooter = origin.chatFooter
  /\ row.chatSuggestions = origin.chatSuggestions
  /\ row.executorEndpoint = origin.executorEndpoint
  /\ row.executorHeaders = origin.executorHeaders
  /\ Len(rows) = Len(originRows)
  /\ \A i \in 1..Len(originRows) :
       /\ rows[i].name = originRows[i].name
       /\ rows[i].enabled = originRows[i].enabled
       /\ rows[i].configurableArguments = originRows[i].configurableArguments
       /\ IF rows[i].name \in DOMAIN Registry
          THEN NonSecretEqual(rows[i].values, originRows[i].values, Registry[rows[i].name])
          ELSE rows[i].values = originRows[i].values

\* C21: exporting a configuration and importing the resulting document
\* unmodified yields a new configuration whose non-secret fields (name,
\* description, enabled status, agentName, chatFooter, chatSuggestions,
\* executor endpoint and headers, and each extension's name, enabled flag,
\* non-secret values and configurableArguments) equal those of the original.
C21_RoundTrip ==
  [][\A p \in Procs :
       (ImportConfigurationSaveExtensions(p) /\ ExportOfOrigin(loc[p].data))
       => LET origin == loc[p].data.originId[1]
          IN /\ configs'[loc[p].cfgId].status = configs'[origin].status
             /\ RoundTripEqual(configs'[loc[p].cfgId],
                               SeqById({e \in extensions' :
                                          e.configurationId = loc[p].cfgId}),
                               configs'[origin],
                               SeqById({e \in extensions' :
                                          e.configurationId = origin}))]_vars

\* a secret argument of the schema holds the masking placeholder
RECURSIVE HoldsPlaceholder(_, _)
HoldsPlaceholder(values, args) ==
  \E k \in DOMAIN values \cap DOMAIN args :
    \/ args[k].format = "password" /\ values[k] = Placeholder
    \/ args[k].type = "object" /\ HoldsPlaceholder(values[k], args[k].properties)

\* C22: when an imported document holds the masking placeholder for an
\* optional secret argument, the import succeeds and the new extension's
\* value map omits that key entirely: no extension row persisted by import
\* holds the placeholder as the value of a secret argument.
C22_PlaceholderOmitted ==
  [][\A p \in Procs :
       ImportConfigurationSaveExtensions(p)
       => \A e \in extensions' \ extensions :
            e.name \in DOMAIN Registry
            => ~HoldsPlaceholder(e.values, Registry[e.name])]_vars

\* the extension rows the step has added, in the order of their ids
AddedExtensions == SeqById(extensions' \ extensions)

\* C23: import persists every extension's value map exactly as it appears
\* in the document: all keys and values are kept as they are, including
\* values equal to the masking placeholder (top-level and nested) and keys
\* that the extension schema does not declare.
C23_ValuesAsIs ==
  [][\A p \in Procs :
       ImportConfigurationSaveExtensions(p)
       => /\ Len(AddedExtensions) = Len(loc[p].data.extensions)
          /\ \A i \in 1..Len(AddedExtensions) :
               /\ AddedExtensions[i].name = loc[p].data.extensions[i].name
               /\ AddedExtensions[i].values = loc[p].data.extensions[i].values]_vars

\* an import has persisted a value map with a nested placeholder, a
\* top-level placeholder and a key its type does not declare
C23_Witness ==
  \E p \in Procs :
    /\ result[p].op = "import"
    /\ result[p].res = "ok"
    /\ \E e \in extensions :
         /\ e.configurationId = result[p].id
         /\ e.name = "y"
         /\ e.values = [auth |-> [token |-> Placeholder, user |-> "eve"],
                        pin |-> Placeholder, region |-> "us"]

\* the two extension lists have the same names, enabled flags and values
SameExtensionList(rows, old) ==
  LET new == SeqById(rows)
      was == SeqById(old)
  IN /\ Len(new) = Len(was)
     /\ \A i \in 1..Len(was) :
          /\ new[i].name = was[i].name
          /\ new[i].enabled = was[i].enabled
          /\ new[i].values = was[i].values

\* C24: restoring a configuration to its own most recent history version is
\* idempotent on the live state: every field keeps its value and the
\* extension list is structurally identical (same names, enabled flags and
\* values).  The target is the most recent version when it is the one the
\* pre-restore snapshot was numbered after.
C24_RestoreLatestIdempotent ==
  [][\A p \in Procs :
       (RestoreCommits(p) /\ loc[p].max = loc[p].version)
       => /\ configs'[loc[p].id] = configs[loc[p].id]
          /\ SameExtensionList({e \in extensions' : e.configurationId = loc[p].id},
                               ExtsOf(loc[p].id))]_vars

\* the number of history entries of a configuration after the step
EntriesAfter(c) == Cardinality({i \in 1..Len(history') : history'[i].configurationId = c})

\* C25 as stated: a successful restore of a configuration to its most
\* recent version appends exactly two new history entries to that
\* configuration's history.  With no other request since the initial state,
\* the entries of the configuration are the initial ones and those of the
\* restore.
C25_TwoEntries ==
  [][\A p \in Procs :
       (RestoreCommits(p) /\ opsStarted = 1 /\ loc[p].max = loc[p].version)
       => EntriesAfter(loc[p].id) = Len(<<Entry1>>) + 2]_vars

\* C25, amended: a successful restore of a configuration to its most recent
\* version appends exactly one new history entry to that configuration's
\* history, the pre-restore snapshot with action 'restore'; no other step of
\* a restore writes to the history.
C25_OneEntry ==
  /\ [][\A p \in Procs :
          (RestoreCommits(p) /\ opsStarted = 1 /\ loc[p].max = loc[p].version)
          => /\ EntriesAfter(loc[p].id) = Len(<<Entry1>>) + 1
             /\ history'[Len(history')].action = "restore"
             /\ history'[Len(history')].configurationId = loc[p].id]_vars
  /\ [][\A p \in Procs :
          (loc[p].op = "restore" /\ pc'[p] # pc[p])
          => \/ history' = history
             \/ /\ pc[p] = "cs_insert"
                /\ Len(history') = Len(history) + 1
                /\ SubSeq(history', 1, Len(history)) = history
                /\ history'[Len(history')].action = "restore"
                /\ history'[Len(history')].configurationId = loc[p].id]_vars

\* a restore to the most recent version has succeeded, alone, and the
\* configuration has one entry more than before
C25_Witness ==
  /\ opsStarted = 1
  /\ \E p \in Procs : result[p] = [op |-> "restore", res |-> "ok"]
  /\ Len(history) = 2
  /\ history[2].action = "restore"
  /\ history[2].version = 2
  /\ history[2].changeComment = <<"Restoring to version", 1>>

\* the request named a configuration that does not exist, or a version the
\* configuration does not have
NothingToFind(r) ==
  \/ r.id \notin DOMAIN configs
  \/ r.op = "getVersion" /\ getVersion(r.id, r.version) = <<>>

\* C26: getHistory, getVersion and getLatestVersion answer a request for a
\* nonexistent configuration id, or a nonexistent version, with NotFound,
\* never with an empty or default result.
C26_NotFound ==
  \A p \in Procs :
    (result[p].op \in {"getHistory", "getVersion", "getLatestVersion"}
     /\ NothingToFind(result[p]))
    => result[p].res = "NotFound"

\* the most recently created entries, newest first, at most limit of them
MostRecent(limit, entries) ==
  /\ Len(entries) <= limit
  /\ Len(entries) = IF limit < Len(history) THEN limit ELSE Len(history)
  /\ \A i \in 1..Len(entries) : entries[i] = history[Len(history) + 1 - i]

\* C27: getRecentChanges(limit) returns at most limit entries, across all
\* configurations, ordered by creation time descending, the most recently
\* created; when the caller supplies no limit, the limit is 50.
C27_RecentChanges ==
  \A p \in Procs :
    result[p].op = "getRecentChanges"
    => /\ result[p].res = "ok"
       /\ MostRecent(IF result[p].limit = <<>> THEN DefaultLimit
                     ELSE result[p].limit[1],
                     result[p].entries)

\* C28: every extension row persisted by import is bound to the newly
\* created configuration and has externalId "<new configuration id>-<name>",
\* built from the id the configuration was assigned at its save, never from
\* the origin id of the document.
C28_ExternalIdOfNewId ==
  /\ [][\A p \in Procs :
          ImportConfigurationSave(p)
          => /\ loc'[p].cfgId \notin DOMAIN configs
             /\ loc'[p].cfgId \in DOMAIN configs']_vars
  /\ [][\A p \in Procs :
          ImportConfigurationSaveExtensions(p)
          => /\ Cardinality(extensions' \ extensions) = Len(loc[p].data.extensions)
             /\ \A e \in extensions' \ extensions :
                  /\ e.configurationId = loc[p].cfgId
                  /\ e.externalId = ToString(loc[p].cfgId) \o "-" \o e.name
                  /\ loc[p].data.originId # <<>>
                     => e.externalId #
                          ToString(loc[p].data.originId[1]) \o "-" \o e.name]_vars

\* the import of a document that names configuration 1 as its origin has
\* succeeded, and its extension carries the id of the new configuration
C28_Witness ==
  \E p \in Procs :
    /\ result[p].op = "import"
    /\ result[p].res = "ok"
    /\ result[p].data.originId = <<1>>
    /\ result[p].id \notin {1, 2}
    /\ \E e \in extensions :
         /\ e.configurationId = result[p].id
         /\ e.name = "y"
         /\ e.externalId = ToString(result[p].id) \o "-y"
         /\ e.externalId # "1-y"

SameButVersion(data) == [data EXCEPT !.version = CurrentVersion]

\* the version warnings among the logged lines
VersionWarnings(logged) ==
  {i \in 1..Len(logged) :
     logged[i].level = "warn" /\ logged[i].text = "Importing configuration from version"}

\* the document carries a version and it is not the current one
VersionDiffers(data) == data.version # Undef /\ data.version # CurrentVersion

\* C31: a difference between the document's format version and the running
\* system's version never makes an import fail: the outcome of the checks
\* and the rows the import persists are those of the same document with a
\* matching version.  A version warning is logged exactly when the document
\* carries a version that differs from the current one.
C31_VersionSkew ==
  [][\A p \in Procs :
       /\ ImportConfiguration(p)
          => LET data == StartedData(p)
                 failure == validateDocument(SameButVersion(data))
                 logged == IF pc'[p] = "idle" THEN result'[p].logged
                           ELSE loc'[p].logged
             IN /\ (pc'[p] = "idle") <=> (failure # <<>>)
                /\ pc'[p] = "idle"
                   => /\ result'[p].res = "BadRequest"
                      /\ result'[p].message = failure[1]
                /\ VersionDiffers(data) <=> Cardinality(VersionWarnings(logged)) = 1
                /\ ~VersionDiffers(data) <=> VersionWarnings(logged) = {}
       /\ ImportConfigurationSave(p)
          => configs'[loc'[p].cfgId]
               = importedRow(SameButVersion(loc[p].data), loc[p].userGroups)
       /\ ImportConfigurationSaveExtensions(p)
          => extensions' \ extensions
               = importedExtensions(SameButVersion(loc[p].data), loc[p].cfgId,
                                    nextExtId)
       /\ ImportConfigurationReload(p)
          => /\ result'[p].res = "ok"
             /\ VersionDiffers(loc[p].data)
                  <=> Cardinality(VersionWarnings(result'[p].logged)) = 1]_vars

\* a document of another version has been imported with its extensions, and
\* the warning was logged
C31_Witness ==
  \E p \in Procs :
    /\ result[p].op = "import"
    /\ result[p].res = "ok"
    /\ result[p].data.version = "0.9.0"
    /\ result[p].data.extensions = <<ImportedX, ImportedY>>
    /\ Cardinality(VersionWarnings(result[p].logged)) = 1
    /\ Cardinality(ExtsOf(result[p].id)) = 2

\* the history holds the entry the request of p has written
EntryWrittenBy(p) ==
  \E i \in 1..Len(history) :
    /\ history[i].configurationId = loc[p].cfgId
    /\ history[i].action = "update"
    /\ history[i].changedBy = loc[p].userId
    /\ history[i].changeComment = loc[p].comment
    /\ history[i].snapshot = loc[p].snapshot

\* the snapshot lists the extension row
SnapshotHolds(snapshot, row) ==
  \E i \in 1..Len(snapshot.extensions) :
    /\ snapshot.extensions[i].externalId = row.externalId
    /\ snapshot.extensions[i].name = row.name

\* C32: for update-configuration and delete-extension called with a user
\* id, the history entry is written before the mutation is applied and its
\* snapshot is the pre-mutation state: the snapshot is read from the live
\* rows while the mutation is still to come, the snapshot of an update holds
\* the old field values, and the snapshot of a delete-extension still
\* contains the extension being deleted.
C32_PreMutationSnapshot ==
  [][\A p \in Procs :
       /\ (loc[p].op \in {"update", "delete-extension"}
           /\ pc[p] = "ss_find" /\ pc'[p] = "cs_select")
          => C6_SnapshotOfLive(loc'[p].snapshot, configs[loc[p].cfgId],
                               ExtsOf(loc[p].cfgId))
       /\ (UpdateConfigurationSave(p) /\ loc[p].userId # Undef)
          => EntryWrittenBy(p)
       /\ (DeleteExtensionDelete(p) /\ loc[p].userId # Undef
           /\ extensions' # extensions)
          => /\ EntryWrittenBy(p)
             /\ \A e \in extensions \ extensions' :
                  SnapshotHolds(loc[p].snapshot, e)]_vars

\* a step of saveSnapshot (the read, and the statements of createSnapshot)
\* or of export
MaskingStep(p) ==
  \/ saveSnapshot(p)
  \/ createSnapshotSelect(p)
  \/ createSnapshotSave(p)
  \/ createSnapshotFail(p)
  \/ ExportConfiguration(p)

\* C33: masking has no effect on live data: saveSnapshot and export leave
\* the stored configuration and every stored extension value map, including
\* the real secret values and the values nested inside object arguments,
\* exactly as they were.
C33_MaskingLeavesLive ==
  [][\A p \in Procs :
       MaskingStep(p) => configs' = configs /\ extensions' = extensions]_vars

\* a snapshot and an exported document hold the placeholder for the secrets
\* of configuration 1, and the live rows still hold the real secrets
C33_Witness ==
  /\ Len(history) = 2
  /\ history[2].action = "restore"
  /\ \E i \in 1..Len(history[2].snapshot.extensions) :
       /\ history[2].snapshot.extensions[i].name = "x"
       /\ history[2].snapshot.extensions[i].values.apiKey = Placeholder
  /\ \E p \in Procs :
       /\ result[p].op = "export" /\ result[p].res = "ok" /\ result[p].id = 1
       /\ \E i \in 1..Len(result[p].document.extensions) :
            /\ result[p].document.extensions[i].name = "y"
            /\ result[p].document.extensions[i].values.auth.token = Placeholder
  /\ Ext1 \in extensions
  /\ Ext2 \in extensions
  /\ Ext1.values.apiKey = "sk-real-123"
  /\ Ext2.values.auth.token = "tk-real"

\* C34: a restore can be undone from its safety snapshot: for any
\* interleaving with concurrent update-configuration or delete-extension on
\* the same configuration, the pre-restore entry written by restoreVersion
\* holds the state that the restore transaction overwrites, the fields and
\* the extension list as they are immediately before the transaction
\* commits.
C34_RestoreUndoable ==
  [][\A p \in Procs :
       RestoreCommits(p)
       => /\ RestoreEntryOf(p, history)
          /\ C6_SnapshotOfLive(loc[p].snapshot, configs[loc[p].id],
                               ExtsOf(loc[p].id))]_vars

\* C35: after a successful restore, every secret-typed value of a registered
\* extension type in the live configuration equals the masking placeholder:
\* restore never brings back a real secret, and a row that held a real
\* secret before the restore is no longer among the live extensions.
C35_SecretsMaskedAfterRestore ==
  [][\A p \in Procs :
       RestoreCommits(p)
       => /\ \A e \in {f \in extensions' : f.configurationId = loc[p].id} :
               e.name \in DOMAIN Registry
               => SecretsMasked(e.values, Registry[e.name])
          /\ \A e \in ExtsOf(loc[p].id) :
               (e.name \in DOMAIN Registry
                /\ ~SecretsMasked(e.values, Registry[e.name]))
               => e \notin extensions']_vars

\* a restore has succeeded: the rows with the real secrets of configuration
\* 1 are gone and the live rows of x and y hold the placeholder
C35_Witness ==
  /\ \E p \in Procs : result[p] = [op |-> "restore", res |-> "ok"]
  /\ Ext1 \notin extensions
  /\ Ext2 \notin extensions
  /\ \E e \in ExtsOf(1) : e.name = "x" /\ e.values.apiKey = Placeholder
  /\ \E e \in ExtsOf(1) : e.name = "y" /\ e.values.auth.token = Placeholder

\* the request of p is inside its restore transaction
InRestoreTransaction(p) == loc[p].op = "restore" /\ pc[p] = "rs_tx"

\* the request of p waits for, or holds, the version-allocation lock
InSnapshotTransaction(p) == pc[p] \in {"cs_select", "cs_insert"}

C37_OnlySuppliedFields ==
  [][\A p \in Procs :
       UpdateConfigurationSave(p) =>
         LET v == loc[p].values
             old == configs[loc[p].id]
             new == configs'[loc[p].id]
         IN /\ v.agentName = Undef => new.agentName = old.agentName
            /\ v.chatFooter = Undef => new.chatFooter = old.chatFooter
            /\ v.chatSuggestions = Undef => new.chatSuggestions = old.chatSuggestions
            /\ v.executorEndpoint = Undef => new.executorEndpoint = old.executorEndpoint
            /\ v.executorHeaders = Undef => new.executorHeaders = old.executorHeaders
            /\ v.name = Undef => new.name = old.name
            /\ v.description = Undef => new.description = old.description
            /\ v.enabled = Undef => new.status = old.status
            /\ v.userGroupIds = <<>> => new.userGroupIds = old.userGroupIds
            /\ new.status # "deleted"]_vars

\* C38: restoreVersion leaves the group associations unchanged: the commit of
\* a restore leaves the configuration with the groups it had just before it,
\* whatever userGroupIds the target snapshot records.
C38_GroupsUnchanged ==
  [][\A p \in Procs :
       RestoreCommits(p) =>
         configs'[loc[p].id].userGroupIds = configs[loc[p].id].userGroupIds]_vars

\* the entry a step has appended
LastEntry == history'[Len(history')]

DeletedEntries(p) ==
  {i \in 1..Len(history) : /\ history[i].configurationId = loc[p].cfgId
                           /\ history[i].changeComment = loc[p].comment}

\* C40: a delete-extension that ends with NotFound appends no history entry:
\* of two concurrent calls on the same extension id the one that finds the
\* row gone at its delete has written no entry, and the history holds exactly
\* one 'Extension ... deleted' entry for the configuration, that of the call
\* that succeeded.
C40_NotFoundAppendsNothing ==
  [][\A p \in Procs :
       (DeleteExtensionDelete(p) /\ result'[p].res = "NotFound"
        /\ loc[p].userId # Undef)
       => /\ ~EntryWrittenBy(p)
          /\ Cardinality(DeletedEntries(p)) = 1]_vars

====
